---------------------------- MODULE Spec2Model ----------------------------
(***************************************************************************)
(* Model of the plagiarism-check backend: the text pipeline of             *)
(* utils/plagiarism.ts (normalize, makeKgrams, winnow, fingerprint         *)
(* similarity, MinHash, LSH, span builder) and the POST /api/checks        *)
(* handler of routes/checks.routes.ts with its database transaction.       *)
(*                                                                         *)
(* Texts are sequences of one-character strings.  Floating-point ratios    *)
(* are kept exact as records [num, den].  SHA-1 is modelled as a fixed     *)
(* injective scrambling of the k-gram; the 64-bit hash range and the       *)
(* 61-bit prime are scaled to 16 and 13 bits because TLC integers are      *)
(* 32 bits wide (the code uses BigInt, so no overflow happens there).      *)
(***************************************************************************)
EXTENDS Integers, Sequences, FiniteSets, TLC

(***************************************************************************)
(* Characters                                                              *)
(***************************************************************************)
LowerChars == {"a", "b", "c"}
UpperChars == {"A", "B", "C"}
DigitChars == {"1"}
WhiteChars == {" ", "\n", "\r"}
PunctChars == {".", ","}

IsWhite(c) == c \in WhiteChars
IsWordChar(c) == c \in LowerChars \cup UpperChars \cup DigitChars
IsPunct(c) == ~IsWordChar(c) /\ ~IsWhite(c)

toLowerCaseChar(c) ==
    CASE c = "A" -> "a"
      [] c = "B" -> "b"
      [] c = "C" -> "c"
      [] OTHER -> c

toLowerCase(s) == [i \in 1..Len(s) |-> toLowerCaseChar(s[i])]

\* .replace(/\r\n/g, "\n")
RECURSIVE replaceCRLF(_)
replaceCRLF(s) ==
    IF Len(s) = 0 THEN <<>>
    ELSE IF Len(s) >= 2 /\ s[1] = "\r" /\ s[2] = "\n"
         THEN <<"\n">> \o replaceCRLF(SubSeq(s, 3, Len(s)))
         ELSE <<s[1]>> \o replaceCRLF(Tail(s))

\* .replace(/[^\p{L}\p{N}\s]+/gu, " "): each maximal run becomes one space
RECURSIVE replacePunctRuns(_)
replacePunctRuns(s) ==
    IF Len(s) = 0 THEN <<>>
    ELSE IF IsPunct(s[1])
         THEN IF Len(s) >= 2 /\ IsPunct(s[2])
              THEN replacePunctRuns(Tail(s))
              ELSE <<" ">> \o replacePunctRuns(Tail(s))
         ELSE <<s[1]>> \o replacePunctRuns(Tail(s))

\* .replace(/\s+/g, " "): each maximal whitespace run becomes one space
RECURSIVE collapseWhitespace(_)
collapseWhitespace(s) ==
    IF Len(s) = 0 THEN <<>>
    ELSE IF IsWhite(s[1])
         THEN IF Len(s) >= 2 /\ IsWhite(s[2])
              THEN collapseWhitespace(Tail(s))
              ELSE <<" ">> \o collapseWhitespace(Tail(s))
         ELSE <<s[1]>> \o collapseWhitespace(Tail(s))

\* String.prototype.trim
RECURSIVE trimStart(_)
trimStart(s) ==
    IF Len(s) > 0 /\ IsWhite(s[1]) THEN trimStart(Tail(s)) ELSE s

RECURSIVE trimEnd(_)
trimEnd(s) ==
    IF Len(s) > 0 /\ IsWhite(s[Len(s)])
    THEN trimEnd(SubSeq(s, 1, Len(s) - 1)) ELSE s

trim(s) == trimEnd(trimStart(s))

\* whitespace collapsed before the punctuation runs are replaced
normalizeSwapped(text) ==
    trim(replacePunctRuns(collapseWhitespace(replaceCRLF(toLowerCase(text)))))

normalize(text) ==
    trim(collapseWhitespace(replacePunctRuns(replaceCRLF(toLowerCase(text)))))

(***************************************************************************)
(* Hashing                                                                 *)
(***************************************************************************)
CharCode(c) ==
    CASE c = "a" -> 1 [] c = "b" -> 2 [] c = "c" -> 3
      [] c = "A" -> 4 [] c = "B" -> 5 [] c = "C" -> 6
      [] c = "1" -> 7 [] c = " " -> 8 [] c = "\n" -> 9
      [] c = "\r" -> 10 [] c = "." -> 11 [] c = "," -> 12
      [] OTHER -> 13

RECURSIVE StrCode(_)
StrCode(s) ==
    IF Len(s) = 0 THEN 0
    ELSE (StrCode(SubSeq(s, 1, Len(s) - 1)) * 14 + CharCode(s[Len(s)])) % (2^16)

\* sha1(str), first 8 bytes: a fixed scrambling, injective on short strings
hash64(str) == (StrCode(str) * 25173 + 13849) % (2^16)

makeKgrams(text, k) ==
    LET t == normalize(text)
    IN IF Len(t) < k THEN <<>>
       ELSE [i \in 1..(Len(t) - k + 1) |->
                [gram |-> SubSeq(t, i, i + k - 1), pos |-> i - 1]]

(***************************************************************************)
(* Winnowing                                                               *)
(***************************************************************************)
Max2(a, b) == IF a >= b THEN a ELSE b
Min2(a, b) == IF a <= b THEN a ELSE b

\* an inner loop with <= in place of <: the rightmost minimum of the window
RECURSIVE WindowMinRightmost(_, _, _, _)
WindowMinRightmost(hashes, j, last, min) ==
    IF j > last THEN min
    ELSE WindowMinRightmost(hashes, j + 1, last,
                            IF hashes[j].h <= min.h THEN hashes[j] ELSE min)

\* inner loop of winnow: the leftmost minimum of hashes[i .. i+windowSize-1]
RECURSIVE WindowMin(_, _, _, _)
WindowMin(hashes, j, last, min) ==
    IF j > last THEN min
    ELSE WindowMin(hashes, j + 1, last,
                   IF hashes[j].h < min.h THEN hashes[j] ELSE min)

\* the outer loop without the rule against duplicates
RECURSIVE WinnowLoopNoRule(_, _, _, _)
WinnowLoopNoRule(hashes, windowSize, i, fps) ==
    IF i > Len(hashes) - windowSize + 1 THEN fps
    ELSE LET min == WindowMin(hashes, i, i + windowSize - 1, hashes[i])
         IN WinnowLoopNoRule(hashes, windowSize, i + 1,
                             Append(fps, [hash |-> min.h, pos |-> min.pos]))

RECURSIVE WinnowLoop(_, _, _, _)
WinnowLoop(hashes, windowSize, i, fps) ==
    IF i > Len(hashes) - windowSize + 1 THEN fps
    ELSE LET min == WindowMin(hashes, i, i + windowSize - 1, hashes[i])
             dup == /\ Len(fps) > 0
                    /\ fps[Len(fps)].pos = min.pos
                    /\ fps[Len(fps)].hash = min.h
         IN WinnowLoop(hashes, windowSize, i + 1,
                       IF dup THEN fps
                       ELSE Append(fps, [hash |-> min.h, pos |-> min.pos]))

winnow(text, k, w) ==
    LET grams == makeKgrams(text, k)
        hashes == [i \in 1..Len(grams) |->
                      [h |-> hash64(grams[i].gram), pos |-> grams[i].pos]]
        windowSize == Max2(1, w)
    IN IF Len(grams) = 0 THEN <<>>
       ELSE WinnowLoop(hashes, windowSize, 1, <<>>)

(***************************************************************************)
(* Jaccard similarity of fingerprint hashes, as an exact ratio             *)
(***************************************************************************)
Ratio(n, d) == [num |-> n, den |-> d]
RatioLess(x, y) == x.num * y.den < y.num * x.den
RatioLeq(x, y) == x.num * y.den <= y.num * x.den

HashSet(fp) == {fp[i].hash : i \in 1..Len(fp)}

\* the sizes of the sequences in place of the sizes of the hash sets
fingerprintSimilarityNoSets(a, b) ==
    IF Len(a) = 0 \/ Len(b) = 0 THEN Ratio(0, 1)
    ELSE LET inter == Cardinality(HashSet(a) \cap HashSet(b))
             union == Len(a) + Len(b) - inter
         IN IF union = 0 THEN Ratio(0, 1) ELSE Ratio(inter, union)

\* a union that counts the common hashes twice
fingerprintSimilarityNoInter(a, b) ==
    IF Len(a) = 0 \/ Len(b) = 0 THEN Ratio(0, 1)
    ELSE LET setA == HashSet(a)
             setB == HashSet(b)
             inter == Cardinality(setA \cap setB)
             union == Cardinality(setA) + Cardinality(setB)
         IN IF union = 0 THEN Ratio(0, 1) ELSE Ratio(inter, union)

fingerprintSimilarity(a, b) ==
    IF Len(a) = 0 \/ Len(b) = 0 THEN Ratio(0, 1)
    ELSE LET setA == HashSet(a)
             setB == HashSet(b)
             inter == Cardinality(setA \cap setB)
             union == Cardinality(setA) + Cardinality(setB) - inter
         IN IF union = 0 THEN Ratio(0, 1) ELSE Ratio(inter, union)

(***************************************************************************)
(* MinHash + LSH (candidate selection)                                     *)
(***************************************************************************)
modBig(x, m) == LET r == x % m IN IF r >= 0 THEN r ELSE r + m

\* 2^61 - 1 in the code; scaled with the hash range (see the module header)
PRIME == 2^13 - 1

hashToInt61(h) == modBig(h, PRIME)

SetMin(S) == CHOOSE x \in S : \A y \in S : x <= y

\* the loop over the permutations started at i = 1
minhashSignatureFromOne(text, k, numPerm) ==
    LET grams == makeKgrams(text, k)
        items == {hashToInt61(hash64(grams[i].gram)) : i \in 1..Len(grams)}
    IN IF items = {} THEN [i \in 1..numPerm |-> PRIME]
       ELSE [i \in 1..(numPerm - 1) |->
                LET a == 1 + ((i * 7919) % 100000)
                    b == 1 + ((i * 104729) % 100000)
                IN SetMin({modBig(a * x + b, PRIME) : x \in items} \cup {PRIME})]

minhashSignature(text, k, numPerm) ==
    LET grams == makeKgrams(text, k)
        items == {hashToInt61(hash64(grams[i].gram)) : i \in 1..Len(grams)}
    IN IF items = {} THEN [i \in 1..numPerm |-> PRIME]
       ELSE [n \in 1..numPerm |->
                LET i == n - 1
                    a == 1 + ((i * 7919) % 100000)
                    b == 1 + ((i * 104729) % 100000)
                IN SetMin({modBig(a * x + b, PRIME) : x \in items} \cup {PRIME})]

\* bands whose last slice runs to the end of the signature
lshBucketsWithRest(sig, bands) ==
    LET r == Len(sig) \div bands
    IN IF r <= 0 THEN <<>>
       ELSE [n \in 1..bands |->
                LET b == n - 1
                    start == b * r
                IN <<b, SubSeq(sig, start + 1,
                               IF n = bands THEN Len(sig) ELSE start + r)>>]

\* bucket key `${b}:${sha1(`${b}:${slice}`)}`: the pair of the band index and
\* the band's slice stands for the key (SHA-1 taken as injective)
lshBuckets(sig, bands) ==
    LET r == Len(sig) \div bands
    IN IF r <= 0 THEN <<>>
       ELSE [n \in 1..bands |->
                LET b == n - 1
                    start == b * r
                IN <<b, SubSeq(sig, start + 1, start + r)>>]

estimateMinhashSim(sigA, sigB) ==
    IF Len(sigA) = 0 \/ Len(sigB) = 0 THEN Ratio(0, 1)
    ELSE LET n == Min2(Len(sigA), Len(sigB))
             same == Cardinality({i \in 1..n : sigA[i] = sigB[i]})
         IN Ratio(same, n)

(***************************************************************************)
(* Span builder                                                            *)
(***************************************************************************)
\* mapB.get(key)[0]: the position of the first fingerprint of fpB with that hash
FirstPosB(fpB, hash) ==
    LET i == CHOOSE i \in 1..Len(fpB) :
                 /\ fpB[i].hash = hash
                 /\ \A j \in 1..(i - 1) : fpB[j].hash # hash
    IN fpB[i].pos

\* the raw matches, in fpA order
RECURSIVE RawMatches(_, _, _)
RawMatches(fpA, fpB, i) ==
    IF i > Len(fpA) THEN <<>>
    ELSE IF fpA[i].hash \in HashSet(fpB)
         THEN <<[hash |-> fpA[i].hash, aPos |-> fpA[i].pos,
                 bPos |-> FirstPosB(fpB, fpA[i].hash)]>>
              \o RawMatches(fpA, fpB, i + 1)
         ELSE RawMatches(fpA, fpB, i + 1)

\* Array.prototype.sort with comparator x.aPos - y.aPos (stable insertion)
RECURSIVE InsertByAPos(_, _)
InsertByAPos(sorted, m) ==
    IF Len(sorted) = 0 THEN <<m>>
    ELSE IF sorted[Len(sorted)].aPos <= m.aPos THEN Append(sorted, m)
         ELSE Append(InsertByAPos(SubSeq(sorted, 1, Len(sorted) - 1), m),
                     sorted[Len(sorted)])

RECURSIVE SortByAPos(_)
SortByAPos(ms) ==
    IF Len(ms) = 0 THEN <<>>
    ELSE InsertByAPos(SortByAPos(SubSeq(ms, 1, Len(ms) - 1)), ms[Len(ms)])

NewSpan(m, k) ==
    [docStart |-> m.aPos, docEnd |-> m.aPos + k,
     srcStart |-> m.bPos, srcEnd |-> m.bPos + k, hash |-> m.hash]

\* the sweep of buildMatchSpans: extend the current span or emit it
RECURSIVE Sweep(_, _, _, _, _)
Sweep(matches, k, i, cur, spans) ==
    IF i > Len(matches) THEN Append(spans, cur)
    ELSE LET m == matches[i]
         IN IF m.aPos <= cur.docEnd + k
            THEN Sweep(matches, k, i + 1,
                       [cur EXCEPT !.docEnd = m.aPos + k, !.srcEnd = m.bPos + k],
                       spans)
            ELSE Sweep(matches, k, i + 1, NewSpan(m, k), Append(spans, cur))

SpanScore(s, docLen, k) ==
    IF s.docEnd - s.docStart >= docLen * k THEN Ratio(1, 1)
    ELSE Ratio(s.docEnd - s.docStart, docLen * k)

buildMatchSpans(fpA, fpB, k) ==
    LET matches == SortByAPos(RawMatches(fpA, fpB, 1))
        docLen == IF Len(fpA) = 0 THEN 1 ELSE Len(fpA)
    IN IF Len(matches) = 0 THEN <<>>
       ELSE LET spans == Sweep(matches, k, 2, NewSpan(matches[1], k), <<>>)
            IN [i \in 1..Len(spans) |->
                   [doc_span_start |-> spans[i].docStart,
                    doc_span_end |-> spans[i].docEnd,
                    src_span_start |-> spans[i].srcStart,
                    src_span_end |-> spans[i].srcEnd,
                    match_score |-> SpanScore(spans[i], docLen, k),
                    snippet_hash |-> spans[i].hash]]

(***************************************************************************)
(* Bounds and input sets of the model                                      *)
(***************************************************************************)
MaxK == 2
MaxW == 2
MaxTextLen == 4
Requests == {1, 2}
ThresholdPcts == {50, 100}

NumPerm == 100
Bands == 20
DefaultMaxCandidates == 10
MaxCandidatesCap == 50
SpanCap == 50

File(text) == [readable |-> TRUE, content |-> text]
Unreadable == [readable |-> FALSE, content |-> <<>>]

\* user_document rows of the requesting user: id_doc -> file behind path_text
user_document ==
    [id \in {1, 2, 3} |->
        CASE id = 1 -> File(<<"B", "a", "a", "C", ".">>)
          [] id = 2 -> File(<<".", "a">>)
          [] id = 3 -> Unreadable]

\* doc_id values of the request body: 0 is invalid, 9 names no row
DocIdInputs == {0, 1, 2, 3, 9}
\* max_candidates of the request body: <<>> when absent, <<n>> when given
MaxCandidatesInputs == {<<>>, <<-1>>, <<0>>, <<1>>}

\* corpus_document rows with a path_text: id_corpus -> file behind path_text
CorpusFiles ==
    [id \in {1, 2, 3, 4, 5, 6} |->
        CASE id = 1 -> File(<<"a", "c">>)
          [] id = 2 -> File(<<"b", "c">>)
          [] id = 3 -> File(<<"c", "a">>)
          [] id = 4 -> File(<<"b", "a", "a", "c">>)
          [] id = 5 -> Unreadable
          [] id = 6 -> File(<<"A">>)]

(***************************************************************************)
(* State                                                                   *)
(***************************************************************************)
VARIABLES
    algoritma_params,   \* table: set of rows
    corpus_active,      \* ids of corpus_document rows with is_active = 1
    check_request,      \* committed table: set of rows
    check_result,       \* committed table: set of rows
    check_match,        \* committed table: set of rows
    audit_log,          \* committed table: sequence of rows (autocommit)
    conn,               \* the handler's connection and its open transaction
    pc,                 \* position of the POST /api/checks handler
    reqNo,              \* number of requests started so far
    body,               \* req.body of the current request
    params,             \* the params row read at the start
    checkId, resultId,  \* insertId of check_request / check_result (0: unset)
    candidates,         \* scoredCandidates after sort and slice
    matchesToInsert,    \* rows collected for check_match
    mIdx,               \* index of the next element of matchesToInsert
    bestSim, similarityPercent,
    threw,              \* history: the catch block was entered
    created,            \* history: the INSERT of check_request was executed
    res,                \* the response of the current request
    adminOps,           \* number of admin requests served so far
    verification_note,  \* table: set of rows
    vcall,              \* the calls of POST /api/verification/:resultId
    fn                  \* a call of a pure function: its arguments and result

dbVars == <<check_request, check_result, check_match>>
verifVars == <<verification_note, vcall>>
envVars == <<algoritma_params, corpus_active, adminOps, verification_note,
             vcall, fn>>
localVars == <<checkId, resultId, candidates, matchesToInsert, mIdx,
               bestSim, similarityPercent>>
vars == <<algoritma_params, corpus_active, check_request, check_result,
          check_match, audit_log, conn, pc, reqNo, body, params,
          checkId, resultId, candidates, matchesToInsert, mIdx, bestSim,
          similarityPercent, threw, created, res, adminOps,
          verification_note, vcall, fn>>

\* acquires, commits, rollbacks and releases count the calls of
\* db.getConnection, conn.commit, conn.rollback and conn.release that the
\* current request has completed
NoConn == [inTx |-> FALSE, acquired |-> FALSE,
           check_request |-> {}, check_result |-> {}, check_match |-> {},
           acquires |-> 0, commits |-> 0, rollbacks |-> 0, releases |-> 0]

\* a catch block that returns a non-empty string for an unreadable file
readTextSafeNonEmpty(file) == IF file.readable THEN file.content ELSE <<"a", "c">>

readTextSafe(file) == IF file.readable THEN file.content ELSE <<>>

\* getActiveParams: WHERE (active_to IS NULL OR active_to > NOW()) AND
\* active_from <= NOW() ORDER BY active_from DESC, id_params DESC LIMIT 1;
\* <<>> is NULL / rows[0] undefined
ActiveRows(rows, now) ==
    {r \in rows : /\ (r.active_to = <<>> \/ r.active_to[1] > now)
                  /\ r.active_from <= now}

\* ORDER BY active_from ASC, id_params ASC in place of DESC
getActiveParamsOldest(rows, now) ==
    LET act == ActiveRows(rows, now)
    IN IF act = {} THEN <<>>
       ELSE <<CHOOSE r \in act : \A q \in act :
                  \/ r.active_from < q.active_from
                  \/ (q.active_from = r.active_from /\ r.id_params <= q.id_params)>>

getActiveParams(rows, now) ==
    LET act == ActiveRows(rows, now)
    IN IF act = {} THEN <<>>
       ELSE <<CHOOSE r \in act : \A q \in act :
                  \/ q.active_from < r.active_from
                  \/ (q.active_from = r.active_from /\ q.id_params <= r.id_params)>>

\* Math.min(Number(req.body?.max_candidates ?? 10), 50)
maxCandidatesOf(b) ==
    Min2(IF b.max_candidates = <<>> THEN DefaultMaxCandidates
         ELSE b.max_candidates[1], MaxCandidatesCap)

\* Array.prototype.slice(0, end)
slice0(arr, end) ==
    LET e == IF end < 0 THEN Max2(Len(arr) + end, 0) ELSE Min2(end, Len(arr))
    IN SubSeq(arr, 1, e)

(***************************************************************************)
(* POST /api/checks: the synchronous computations between two awaits       *)
(***************************************************************************)
\* SELECT ... WHERE is_active = 1 AND path_text IS NOT NULL ORDER BY id_corpus DESC
RECURSIVE DescSeq(_)
DescSeq(ids) ==
    IF ids = {} THEN <<>>
    ELSE LET m == CHOOSE x \in ids : \A y \in ids : y <= x
         IN <<m>> \o DescSeq(ids \ {m})

corpusRowsOf(active) ==
    LET ids == DescSeq(active)
    IN [i \in 1..Len(ids) |-> [id_corpus |-> ids[i], file |-> CorpusFiles[ids[i]]]]

SeqToSet(q) == {q[i] : i \in 1..Len(q)}

\* the texts behind the files of the model, and the signature and the
\* fingerprints of each, computed once (a memo of the calls of lines 137, 146,
\* 164 and 174: the functions are pure)
KnownTexts ==
    {readTextSafe(user_document[i]) : i \in DOMAIN user_document}
        \cup {readTextSafe(CorpusFiles[i]) : i \in DOMAIN CorpusFiles}

SignatureMemo ==
    [t \in KnownTexts, k \in 1..MaxK |-> minhashSignature(t, k, NumPerm)]

FingerprintMemo ==
    [t \in KnownTexts, k \in 1..MaxK, w \in 1..MaxW |-> winnow(t, k, w)]

\* the corpus scan: one scoredCandidates entry per row that shares a bucket
RECURSIVE scanCorpus(_, _, _, _, _)
scanCorpus(corpusRows, i, sigDoc, bucketsDoc, k) ==
    IF i > Len(corpusRows) THEN <<>>
    ELSE LET c == corpusRows[i]
             cText == readTextSafe(c.file)
             rest == scanCorpus(corpusRows, i + 1, sigDoc, bucketsDoc, k)
         IN IF Len(cText) = 0 \/ Len(trim(cText)) < k THEN rest
            ELSE LET sigC == SignatureMemo[cText, k]
                     bucketsC == lshBuckets(sigC, Bands)
                     share == SeqToSet(bucketsC) \cap bucketsDoc # {}
                 IN IF ~share THEN rest
                    ELSE <<[id_corpus |-> c.id_corpus,
                            approx |-> estimateMinhashSim(sigDoc, sigC)]>> \o rest

\* scoredCandidates.sort((a, b) => b.approx - a.approx), a stable sort
RECURSIVE InsertByApprox(_, _)
InsertByApprox(sorted, c) ==
    IF Len(sorted) = 0 THEN <<c>>
    ELSE IF ~RatioLess(sorted[Len(sorted)].approx, c.approx)
         THEN Append(sorted, c)
         ELSE Append(InsertByApprox(SubSeq(sorted, 1, Len(sorted) - 1), c),
                     sorted[Len(sorted)])

\* no sort: the candidates stay in the order of the corpus scan
unsorted(cs) == cs

RECURSIVE sortByApprox(_)
sortByApprox(cs) ==
    IF Len(cs) = 0 THEN <<>>
    ELSE InsertByApprox(sortByApprox(SubSeq(cs, 1, Len(cs) - 1)), cs[Len(cs)])

selectCandidates(docText, corpusRows, k, maxCandidates) ==
    LET sigDoc == SignatureMemo[docText, k]
        bucketsDoc == SeqToSet(lshBuckets(sigDoc, Bands))
        scored == scanCorpus(corpusRows, 1, sigDoc, bucketsDoc, k)
    IN slice0(sortByApprox(scored), maxCandidates)

\* sim >= threshold, the threshold given in percent
MeetsThreshold(sim, thresholdPct) == sim.num * 100 >= thresholdPct * sim.den

\* rows that keep the match_score of the span builder
MatchRowsSpanScore(cand, sim, spans) ==
    [i \in 1..Len(spans) |->
        [source_id |-> cand.id_corpus,
         doc_span_start |-> spans[i].doc_span_start,
         doc_span_end |-> spans[i].doc_span_end,
         src_span_start |-> spans[i].src_span_start,
         src_span_end |-> spans[i].src_span_end,
         match_score |-> spans[i].match_score,
         snippet_hash |-> spans[i].snippet_hash]]

\* the spans of a candidate pushed last to first
MatchRowsReversed(cand, sim, spans) ==
    [i \in 1..Len(spans) |->
        [source_id |-> cand.id_corpus,
         doc_span_start |-> spans[Len(spans) + 1 - i].doc_span_start,
         doc_span_end |-> spans[Len(spans) + 1 - i].doc_span_end,
         src_span_start |-> spans[Len(spans) + 1 - i].src_span_start,
         src_span_end |-> spans[Len(spans) + 1 - i].src_span_end,
         match_score |-> sim,
         snippet_hash |-> spans[Len(spans) + 1 - i].snippet_hash]]

MatchRows(cand, sim, spans) ==
    [i \in 1..Len(spans) |->
        [source_id |-> cand.id_corpus,
         doc_span_start |-> spans[i].doc_span_start,
         doc_span_end |-> spans[i].doc_span_end,
         src_span_start |-> spans[i].src_span_start,
         src_span_end |-> spans[i].src_span_end,
         match_score |-> sim,
         snippet_hash |-> spans[i].snippet_hash]]

\* rows for every span that was built, with no slice
collectRowsUncapped(cand, sim, thresholdPct, spans) ==
    IF MeetsThreshold(sim, thresholdPct) THEN MatchRows(cand, sim, spans)
    ELSE <<>>

\* lines 179-194: if (sim >= threshold), one row per span of the first 50
collectRows(cand, sim, thresholdPct, spans) ==
    IF MeetsThreshold(sim, thresholdPct)
    THEN MatchRows(cand, sim, slice0(spans, SpanCap))
    ELSE <<>>

\* the body of the verification loop for one candidate: its similarity and
\* the rows pushed to matchesToInsert
verifyCandidate(cand, fpDoc, fpC, k, thresholdPct) ==
    LET sim == fingerprintSimilarity(fpDoc, fpC)
    IN [sim |-> sim,
        rows |-> collectRows(cand, sim, thresholdPct,
                             buildMatchSpans(fpDoc, fpC, k))]

\* the verification loop: [bestSim, matchesToInsert] after candidates i..
RECURSIVE verifyLoop(_, _, _, _, _, _, _)
verifyLoop(cands, i, fpDoc, k, w, thresholdPct, acc) ==
    IF i > Len(cands) THEN acc
    ELSE LET cand == cands[i]
             cText == readTextSafe(CorpusFiles[cand.id_corpus])
             fpC == FingerprintMemo[cText, k, w]
             one == verifyCandidate(cand, fpDoc, fpC, k, thresholdPct)
             best == IF RatioLess(acc.bestSim, one.sim) THEN one.sim
                     ELSE acc.bestSim
         IN verifyLoop(cands, i + 1, fpDoc, k, w, thresholdPct,
                       [bestSim |-> best,
                        matchesToInsert |-> acc.matchesToInsert \o one.rows])

\* Math.floor in place of Math.round
floorPercent(sim) == (sim.num * 10000) \div sim.den

\* Math.round(bestSim * 10000) / 100, in hundredths of a percent
roundPercent(sim) == (2 * sim.num * 10000 + sim.den) \div (2 * sim.den)

(***************************************************************************)
(* POST /api/checks: one action per await of the handler                   *)
(***************************************************************************)
Response(status, kind) ==
    [sent |-> TRUE, status |-> status, kind |-> kind, similarity |-> 0,
     matches_inserted |-> 0]
NoResponse ==
    [sent |-> FALSE, status |-> 0, kind |-> "none", similarity |-> 0,
     matches_inserted |-> 0]
NoParams == [id_params |-> 0, k |-> 0, w |-> 0, thresholdPct |-> 0]
ZeroSim == Ratio(0, 1)

NoCall == [op |-> "none"]

\* POST /api/verification/:resultId: the calls and the state of one not started
MaxCalls == 2
Calls == 1..MaxCalls
IdleCall == [pc |-> "idle", resultId |-> 0, user |-> 0, status |-> "",
             note_text |-> <<>>, dosenId |-> 0, existing |-> <<>>,
             noteId |-> 0, code |-> 0]
NoCalls == [c \in Calls |-> IdleCall]

ParamRows ==
    {[id_params |-> 1, k |-> k, w |-> w, thresholdPct |-> t,
      active_from |-> 0, active_to |-> <<>>] :
        k \in 1..MaxK, w \in 1..MaxW, t \in ThresholdPcts}

\* the const/let bindings of the try block, before they are bound and after
\* their scope has ended
NoLocals ==
    /\ checkId = 0
    /\ resultId = 0
    /\ candidates = <<>>
    /\ matchesToInsert = <<>>
    /\ mIdx = 1
    /\ bestSim = ZeroSim
    /\ similarityPercent = 0

ResetLocals ==
    /\ checkId' = 0
    /\ resultId' = 0
    /\ candidates' = <<>>
    /\ matchesToInsert' = <<>>
    /\ mIdx' = 1
    /\ bestSim' = ZeroSim
    /\ similarityPercent' = 0

Init ==
    /\ algoritma_params \in {{}} \cup {{r} : r \in ParamRows}
    /\ corpus_active \in SUBSET (DOMAIN CorpusFiles)
    /\ check_request = {}
    /\ check_result = {}
    /\ check_match = {}
    /\ audit_log = <<>>
    /\ conn = NoConn
    /\ pc = "idle"
    /\ reqNo = 0
    /\ body \in [doc_id : DocIdInputs, max_candidates : MaxCandidatesInputs]
    /\ params = NoParams
    /\ NoLocals
    /\ threw = FALSE
    /\ created = FALSE
    /\ res = NoResponse
    /\ adminOps = 0
    /\ verification_note = {}
    /\ vcall = NoCalls
    /\ fn = NoCall

\* a statement that rejects inside the try block transfers control to catch;
\* the bindings of the try block go out of scope
Throw ==
    /\ pc' = "catch"
    /\ ResetLocals
    /\ UNCHANGED <<envVars, dbVars, audit_log, conn, reqNo, body, params,
                   threw, created, res>>

\* lines 64-72: a new request arrives; doc_id is validated
Start ==
    /\ pc \in {"idle", "done"}
    /\ reqNo + 1 \in Requests
    /\ reqNo' = reqNo + 1
    /\ params' = NoParams
    /\ ResetLocals
    /\ threw' = FALSE
    /\ created' = FALSE
    /\ conn' = NoConn
    /\ IF body.doc_id <= 0
       THEN /\ res' = Response(400, "DocIdRequired")
            /\ pc' = "done"
       ELSE /\ res' = NoResponse
            /\ pc' = "getParams"
    /\ UNCHANGED <<envVars, dbVars, audit_log, body>>

\* lines 74-81: await getActiveParams(); a rejection here is outside the try
GetParams ==
    /\ pc = "getParams"
    /\ \/ LET p == getActiveParams(algoritma_params, 0)
          IN IF p = <<>>
             THEN /\ res' = Response(400, "NoActiveParams")
                  /\ pc' = "done"
                  /\ UNCHANGED params
             ELSE /\ params' = [id_params |-> p[1].id_params, k |-> p[1].k,
                                w |-> p[1].w, thresholdPct |-> p[1].thresholdPct]
                  /\ pc' = "getConnection"
                  /\ UNCHANGED res
       \/ /\ pc' = "done"
          /\ UNCHANGED <<params, res>>
    /\ UNCHANGED <<envVars, dbVars, audit_log, conn, reqNo, body, localVars, threw, created>>

\* line 83: await db.getConnection(), still outside the try
GetConnection ==
    /\ pc = "getConnection"
    /\ \/ /\ conn' = [conn EXCEPT !.acquired = TRUE, !.acquires = @ + 1]
          /\ pc' = "begin"
       \/ /\ pc' = "done"
          /\ UNCHANGED conn
    /\ UNCHANGED <<envVars, dbVars, audit_log, reqNo, body, params, localVars,
                   threw, created, res>>

\* line 85: await conn.beginTransaction()
BeginTransaction ==
    /\ pc = "begin"
    /\ \/ /\ conn' = [conn EXCEPT !.inTx = TRUE,
                                  !.check_request = check_request,
                                  !.check_result = check_result,
                                  !.check_match = check_match]
          /\ pc' = "selectDoc"
          /\ UNCHANGED <<envVars, dbVars, audit_log, reqNo, body, params,
                         localVars, threw, created, res>>
       \/ Throw

\* lines 88-99: SELECT the document of the user
SelectDoc ==
    /\ pc = "selectDoc"
    /\ \/ /\ pc' = IF body.doc_id \in DOMAIN user_document
                   THEN "insertCheck" ELSE "rollback404"
          /\ UNCHANGED <<envVars, dbVars, audit_log, conn, reqNo, body, params,
                         localVars, threw, created, res>>
       \/ Throw

\* a rollback that drops nothing and leaves the transaction open
NotRolledBack(c) == c

\* conn.rollback(): the writes of the open transaction are dropped
RolledBack(c) ==
    [c EXCEPT !.inTx = FALSE, !.check_request = {}, !.check_result = {},
              !.check_match = {}, !.rollbacks = @ + 1]

\* the 404 answered from inside the try with no rollback before it
Return404WithoutRollback ==
    /\ pc = "rollback404"
    /\ res' = Response(404, "NotFound")
    /\ pc' = "finally"
    /\ UNCHANGED <<envVars, dbVars, audit_log, conn, reqNo, body, params,
                   localVars, threw, created>>

\* lines 97-98: document not found
Rollback404 ==
    /\ pc = "rollback404"
    /\ \/ /\ conn' = RolledBack(conn)
          /\ res' = Response(404, "NotFound")
          /\ pc' = "finally"
          /\ UNCHANGED <<envVars, dbVars, audit_log, reqNo, body, params,
                         localVars, threw, created>>
       \/ Throw

\* lines 102-107: INSERT INTO check_request ... 'processing'
InsertCheckRequest ==
    /\ pc = "insertCheck"
    /\ \/ /\ conn' = [conn EXCEPT !.check_request = @ \cup
                        {[id_check |-> reqNo, doc_id |-> body.doc_id,
                          params_id |-> params.id_params,
                          status |-> "processing", finished_at |-> "NULL"]}]
          /\ checkId' = reqNo
          /\ created' = TRUE
          /\ pc' = "auditCreate"
          /\ UNCHANGED <<envVars, dbVars, audit_log, reqNo, body, params,
                         resultId, candidates, matchesToInsert, mIdx, bestSim,
                         similarityPercent, threw, res>>
       \/ Throw

\* audit(): INSERT INTO audit_log on the pool (autocommit); errors are swallowed
Audited(action, entity, entity_id) ==
    \/ audit_log' = Append(audit_log, [action |-> action, entity |-> entity,
                                       entity_id |-> entity_id])
    \/ UNCHANGED audit_log

\* docText of the request and the too-short test of line 119
DocText == readTextSafe(user_document[body.doc_id])
TooShort(docText, k) == Len(docText) = 0 \/ Len(trim(docText)) < k

\* lines 109-119: audit CREATE_CHECK_REQUEST, then read the document text
AuditCreate ==
    /\ pc = "auditCreate"
    /\ Audited("CREATE_CHECK_REQUEST", "check_request", checkId)
    /\ pc' = IF TooShort(DocText, params.k) THEN "updateFailed" ELSE "selectCorpus"
    /\ UNCHANGED <<envVars, dbVars, conn, reqNo, body, params, localVars,
                   threw, created, res>>

\* an UPDATE that sets the status and leaves finished_at alone
SetStatusOnly(rows, id, status) ==
    {IF r.id_check = id THEN [r EXCEPT !.status = status] ELSE r : r \in rows}

SetStatus(rows, id, status) ==
    {IF r.id_check = id
     THEN [r EXCEPT !.status = status, !.finished_at = "NOW"] ELSE r : r \in rows}

\* the UPDATE of the too-short branch writing 'done' in place of 'failed'
UpdateFailedAsDone ==
    /\ pc = "updateFailed"
    /\ \/ /\ conn' = [conn EXCEPT !.check_request = SetStatus(@, checkId, "done")]
          /\ pc' = "commitFailed"
          /\ UNCHANGED <<envVars, dbVars, audit_log, reqNo, body, params,
                         localVars, threw, created, res>>
       \/ Throw

\* lines 120-123: UPDATE check_request SET status='failed', finished_at=NOW()
UpdateFailed ==
    /\ pc = "updateFailed"
    /\ \/ /\ conn' = [conn EXCEPT !.check_request = SetStatus(@, checkId, "failed")]
          /\ pc' = "commitFailed"
          /\ UNCHANGED <<envVars, dbVars, audit_log, reqNo, body, params,
                         localVars, threw, created, res>>
       \/ Throw

\* conn.commit(): the writes of the transaction become the committed tables
Committed ==
    /\ check_request' = conn.check_request
    /\ check_result' = conn.check_result
    /\ check_match' = conn.check_match
    /\ conn' = [conn EXCEPT !.inTx = FALSE, !.commits = @ + 1]

\* the too-short branch answering 400 without committing
CommitFailedWithoutCommit ==
    /\ pc = "commitFailed"
    /\ res' = Response(400, "EmptyOrTooShort")
    /\ pc' = "finally"
    /\ UNCHANGED <<envVars, dbVars, conn, audit_log, reqNo, body, params,
                   localVars, threw, created>>

\* lines 124-125: commit the failed request and answer 400
CommitFailed ==
    /\ pc = "commitFailed"
    /\ \/ /\ Committed
          /\ res' = Response(400, "EmptyOrTooShort")
          /\ pc' = "finally"
          /\ UNCHANGED <<envVars, audit_log, reqNo, body, params, localVars, threw, created>>
       \/ Throw

\* lines 129-203: SELECT the active corpus, then candidate selection,
\* Winnowing verification and the summary, all synchronous
SelectCorpus ==
    /\ pc = "selectCorpus"
    /\ \/ LET corpusRows == corpusRowsOf(corpus_active)
              cands == selectCandidates(DocText, corpusRows, params.k,
                                        maxCandidatesOf(body))
              fpDoc == FingerprintMemo[DocText, params.k, params.w]
              out == verifyLoop(cands, 1, fpDoc, params.k, params.w,
                                params.thresholdPct,
                                [bestSim |-> ZeroSim, matchesToInsert |-> <<>>])
          IN /\ candidates' = cands
             /\ matchesToInsert' = out.matchesToInsert
             /\ bestSim' = out.bestSim
             /\ similarityPercent' = roundPercent(out.bestSim)
             /\ pc' = "insertResult"
             /\ UNCHANGED <<envVars, dbVars, audit_log, conn, reqNo, body,
                            params, checkId, resultId, mIdx, threw, created, res>>
       \/ Throw

\* an INSERT of check_result whose summary takes the params from a second
\* getActiveParams() in place of the row read at the start
InsertResultRereads ==
    /\ pc = "insertResult"
    /\ \/ /\ conn' = [conn EXCEPT !.check_result = @ \cup
                        {[id_result |-> reqNo, check_id |-> checkId,
                          similarity |-> similarityPercent,
                          summary |->
                             [params |->
                                 LET p == getActiveParams(algoritma_params, 0)
                                 IN IF p = <<>> THEN NoParams
                                    ELSE [id_params |-> p[1].id_params,
                                          k |-> p[1].k, w |-> p[1].w,
                                          thresholdPct |-> p[1].thresholdPct],
                              candidates |-> candidates,
                              best_similarity |-> bestSim]]}]
          /\ resultId' = reqNo
          /\ pc' = IF Len(matchesToInsert) > 0 THEN "insertMatch" ELSE "updateDone"
          /\ UNCHANGED <<envVars, dbVars, audit_log, reqNo, body, params,
                         checkId, candidates, matchesToInsert, mIdx, bestSim,
                         similarityPercent, threw, created, res>>
       \/ Throw

\* lines 206-211: INSERT INTO check_result
InsertResult ==
    /\ pc = "insertResult"
    /\ \/ /\ conn' = [conn EXCEPT !.check_result = @ \cup
                        {[id_result |-> reqNo, check_id |-> checkId,
                          similarity |-> similarityPercent,
                          summary |-> [params |-> params,
                                       candidates |-> candidates,
                                       best_similarity |-> bestSim]]}]
          /\ resultId' = reqNo
          /\ pc' = IF Len(matchesToInsert) > 0 THEN "insertMatch" ELSE "updateDone"
          /\ UNCHANGED <<envVars, dbVars, audit_log, reqNo, body, params,
                         checkId, candidates, matchesToInsert, mIdx, bestSim,
                         similarityPercent, threw, created, res>>
       \/ Throw

\* the INSERT of a check_match row sent to the pool (db.query, autocommit)
\* instead of the connection of the transaction
InsertMatchOnPool ==
    /\ pc = "insertMatch"
    /\ \/ /\ check_match' = check_match \cup
                        {[id_match |-> <<reqNo, mIdx>>, result_id |-> resultId,
                          row |-> matchesToInsert[mIdx]]}
          /\ mIdx' = mIdx + 1
          /\ pc' = IF mIdx < Len(matchesToInsert) THEN "insertMatch" ELSE "updateDone"
          /\ UNCHANGED <<envVars, check_request, check_result, conn, audit_log,
                         reqNo, body, params, checkId, resultId, candidates,
                         matchesToInsert, bestSim, similarityPercent, threw,
                         created, res>>
       \/ Throw

\* lines 214-233: INSERT INTO check_match, one row per await
InsertMatch ==
    /\ pc = "insertMatch"
    /\ \/ /\ conn' = [conn EXCEPT !.check_match = @ \cup
                        {[id_match |-> <<reqNo, mIdx>>, result_id |-> resultId,
                          row |-> matchesToInsert[mIdx]]}]
          /\ mIdx' = mIdx + 1
          /\ pc' = IF mIdx < Len(matchesToInsert) THEN "insertMatch" ELSE "updateDone"
          /\ UNCHANGED <<envVars, dbVars, audit_log, reqNo, body, params,
                         checkId, resultId, candidates, matchesToInsert,
                         bestSim, similarityPercent, threw, created, res>>
       \/ Throw

\* the UPDATE followed by the audit of CHECK_COMPLETED, with no commit between
UpdateDoneNoCommit ==
    /\ pc = "updateDone"
    /\ \/ /\ conn' = [conn EXCEPT !.check_request = SetStatus(@, checkId, "done")]
          /\ pc' = "auditCompleted"
          /\ UNCHANGED <<envVars, dbVars, audit_log, reqNo, body, params,
                         localVars, threw, created, res>>
       \/ Throw

\* lines 236-239: UPDATE check_request SET status='done', finished_at=NOW()
UpdateDone ==
    /\ pc = "updateDone"
    /\ \/ /\ conn' = [conn EXCEPT !.check_request = SetStatus(@, checkId, "done")]
          /\ pc' = "commit"
          /\ UNCHANGED <<envVars, dbVars, audit_log, reqNo, body, params,
                         localVars, threw, created, res>>
       \/ Throw

\* line 241: await conn.commit()
Commit ==
    /\ pc = "commit"
    /\ \/ /\ Committed
          /\ pc' = "auditCompleted"
          /\ UNCHANGED <<envVars, audit_log, reqNo, body, params, localVars,
                         threw, created, res>>
       \/ Throw

\* lines 243-259: audit CHECK_COMPLETED and answer 201
AuditCompleted ==
    /\ pc = "auditCompleted"
    /\ Audited("CHECK_COMPLETED", "check_result", resultId)
    /\ res' = [Response(201, "Created") EXCEPT
                   !.similarity = similarityPercent,
                   !.matches_inserted = Len(matchesToInsert)]
    /\ pc' = "finally"
    /\ UNCHANGED <<envVars, dbVars, conn, reqNo, body, params, localVars, threw, created>>

\* lines 260-262: catch: roll back and answer 500
Catch ==
    /\ pc = "catch"
    /\ conn' = RolledBack(conn)
    /\ threw' = TRUE
    /\ res' = Response(500, "ServerError")
    /\ pc' = "finally"
    /\ UNCHANGED <<envVars, dbVars, audit_log, reqNo, body, params, localVars,
                   created>>

\* lines 263-265: finally: release the connection; the handler returns
Finally ==
    /\ pc = "finally"
    /\ conn' = [conn EXCEPT !.acquired = FALSE, !.releases = @ + 1]
    /\ pc' = "done"
    /\ ResetLocals
    /\ UNCHANGED <<envVars, dbVars, audit_log, reqNo, body, params, threw, created, res>>

Next ==
    \/ Start
    \/ GetParams
    \/ GetConnection
    \/ BeginTransaction
    \/ SelectDoc
    \/ Rollback404
    \/ InsertCheckRequest
    \/ AuditCreate
    \/ UpdateFailed
    \/ CommitFailed
    \/ SelectCorpus
    \/ InsertResult
    \/ InsertMatch
    \/ UpdateDone
    \/ Commit
    \/ AuditCompleted
    \/ Catch
    \/ Finally

Spec == Init /\ [][Next]_vars

(***************************************************************************)
(* Calls of the pure functions of utils/plagiarism.ts on bounded inputs    *)
(***************************************************************************)
RECURSIVE TextsOfLen(_, _)
TextsOfLen(alphabet, n) ==
    IF n = 0 THEN {<<>>}
    ELSE {Append(t, c) : t \in TextsOfLen(alphabet, n - 1), c \in alphabet}

TextsUpTo(alphabet, n) == UNION {TextsOfLen(alphabet, m) : m \in 0..n}

SpanTexts == TextsUpTo({"a", "b"}, MaxTextLen)

HandlerIdle ==
    /\ algoritma_params = {}
    /\ corpus_active = {}
    /\ check_request = {}
    /\ check_result = {}
    /\ check_match = {}
    /\ audit_log = <<>>
    /\ conn = NoConn
    /\ pc = "idle"
    /\ reqNo = 0
    /\ body = [doc_id |-> 0, max_candidates |-> <<>>]
    /\ params = NoParams
    /\ NoLocals
    /\ threw = FALSE
    /\ created = FALSE
    /\ res = NoResponse
    /\ adminOps = 0
    /\ verification_note = {}
    /\ vcall = NoCalls

handlerVars == <<algoritma_params, corpus_active, check_request, check_result,
                 check_match, audit_log, conn, pc, reqNo, body, params,
                 checkId, resultId, candidates, matchesToInsert, mIdx, bestSim,
                 similarityPercent, threw, created, res, adminOps,
                 verification_note, vcall>>

InitSpans ==
    /\ HandlerIdle
    /\ fn \in {[op |-> "args", a |-> a, b |-> b, k |-> k, w |-> w] :
                  a \in SpanTexts, b \in SpanTexts, k \in 1..MaxK, w \in 1..MaxW}

\* buildMatchSpans(winnow(a, k, w), winnow(b, k, w), k)
CallBuildMatchSpans ==
    /\ fn.op = "args"
    /\ fn' = [op |-> "buildMatchSpans", a |-> fn.a, b |-> fn.b, k |-> fn.k,
              w |-> fn.w,
              fpA |-> winnow(fn.a, fn.k, fn.w),
              fpB |-> winnow(fn.b, fn.k, fn.w),
              out |-> buildMatchSpans(winnow(fn.a, fn.k, fn.w),
                                      winnow(fn.b, fn.k, fn.w), fn.k)]
    /\ UNCHANGED handlerVars

\* fingerprintSimilarity(winnow(a, k, w), winnow(b, k, w))
CallFingerprintSimilarity ==
    /\ fn.op = "args"
    /\ fn' = [op |-> "fingerprintSimilarity", a |-> fn.a, b |-> fn.b,
              k |-> fn.k, w |-> fn.w,
              fpA |-> winnow(fn.a, fn.k, fn.w),
              fpB |-> winnow(fn.b, fn.k, fn.w),
              out |-> fingerprintSimilarity(winnow(fn.a, fn.k, fn.w),
                                            winnow(fn.b, fn.k, fn.w))]
    /\ UNCHANGED handlerVars

NextSpans == CallBuildMatchSpans \/ CallFingerprintSimilarity

SpecSpans == InitSpans /\ [][NextSpans]_vars

\* raw texts: letters of both cases, punctuation, a blank, CR and LF
RawChars == {"a", "B", ".", " ", "\r", "\n"}
RawTexts == TextsUpTo(RawChars, MaxTextLen)

\* numPerm of a call of minhashSignature
PermCounts == {1, 2, NumPerm}

InitText ==
    /\ HandlerIdle
    /\ fn \in {[op |-> "text", text |-> t, k |-> k, w |-> w] :
                  t \in RawTexts, k \in 1..MaxK, w \in 1..MaxW}

\* normalize(text), and normalize of the result
CallNormalize ==
    /\ fn.op = "text"
    /\ fn' = [op |-> "normalize", text |-> fn.text, k |-> fn.k, w |-> fn.w,
              out |-> normalize(fn.text),
              again |-> normalize(normalize(fn.text))]
    /\ UNCHANGED handlerVars

\* winnow(text, k, w)
CallWinnow ==
    /\ fn.op = "text"
    /\ fn' = [op |-> "winnow", text |-> fn.text, k |-> fn.k, w |-> fn.w,
              out |-> winnow(fn.text, fn.k, fn.w)]
    /\ UNCHANGED handlerVars

\* minhashSignature(text, k, numPerm)
CallMinhashSignature ==
    /\ fn.op = "text"
    /\ \E n \in PermCounts :
          fn' = [op |-> "minhashSignature", text |-> fn.text, k |-> fn.k,
                 w |-> fn.w, numPerm |-> n,
                 grams |-> makeKgrams(fn.text, fn.k),
                 out |-> minhashSignature(fn.text, fn.k, n)]
    /\ UNCHANGED handlerVars

NextText == CallNormalize \/ CallWinnow \/ CallMinhashSignature

SpecText == InitText /\ [][NextText]_vars

\* a document of n copies of "abb" against a source holding "a", k = 1 and
\* w = 1: the fingerprints match at the positions 0, 3, 6, ..., which gives
\* one span per copy, and the similarity is 1/2
MaxRepeat == 60
RepeatedSpans(n) ==
    [i \in 1..n |->
        [doc_span_start |-> 3 * (i - 1), doc_span_end |-> 3 * (i - 1) + 1,
         src_span_start |-> 0, src_span_end |-> 1,
         match_score |-> Ratio(1, 3 * n),
         snippet_hash |-> hash64(<<"a">>)]]

InitVerify ==
    /\ HandlerIdle
    /\ fn \in {[op |-> "spans", n |-> n, thresholdPct |-> p] :
                  n \in 0..MaxRepeat, p \in ThresholdPcts}

\* lines 179-194 for the candidate of such a document
CallCollectRows ==
    /\ fn.op = "spans"
    /\ fn' = [op |-> "collectRows", n |-> fn.n, thresholdPct |-> fn.thresholdPct,
              sim |-> Ratio(1, 2),
              spans |-> RepeatedSpans(fn.n),
              out |-> collectRows([id_corpus |-> 1], Ratio(1, 2),
                                  fn.thresholdPct, RepeatedSpans(fn.n))]
    /\ UNCHANGED handlerVars

NextVerify == CallCollectRows

SpecVerify == InitVerify /\ [][NextVerify]_vars

\* signatures of up to MaxSigLen entries and the band counts of a call
MaxSigLen == 5
SigEntries == {0, 1, PRIME}
Signatures == UNION {[1..n -> SigEntries] : n \in 0..MaxSigLen}
BandCounts == {1, 2, 3}

InitBuckets ==
    /\ HandlerIdle
    /\ fn \in {[op |-> "sig", sig |-> g, bands |-> b] :
                  g \in Signatures, b \in BandCounts}

\* lshBuckets(sig, bands)
CallLshBuckets ==
    /\ fn.op = "sig"
    /\ fn' = [op |-> "lshBuckets", sig |-> fn.sig, bands |-> fn.bands,
              out |-> lshBuckets(fn.sig, fn.bands)]
    /\ UNCHANGED handlerVars

NextBuckets == CallLshBuckets

SpecBuckets == InitBuckets /\ [][NextBuckets]_vars

(***************************************************************************)
(* Properties of POST /api/checks                                          *)
(***************************************************************************)
ResultsOf(tbl, r) == {x \in tbl : x.check_id = r}
MatchesOf(tbl, r) == {m \in tbl : m.result_id = r}
RequestsOf(tbl, r) == {x \in tbl : x.id_check = r}

\* the check_match rows of check r when all of `rows` are inserted
AllMatchRows(r, rows) ==
    {[id_match |-> <<r, i>>, result_id |-> r, row |-> rows[i]] : i \in 1..Len(rows)}

C1_State ==
    \A r \in Requests :
        LET results == ResultsOf(check_result, r)
            matches == MatchesOf(check_match, r)
        IN /\ Cardinality(results) <= 1
           /\ results = {} => matches = {}
           /\ (r # reqNo \/ pc \notin {"auditCompleted", "finally", "done"})
                 => (r >= reqNo => results = {} /\ matches = {})
           /\ (r = reqNo /\ pc \in {"auditCompleted", "finally"} /\ results # {})
                 => matches = AllMatchRows(r, matchesToInsert)
           /\ (r = reqNo /\ pc = "done")
                 => IF res.status = 201
                    THEN /\ results # {}
                         /\ Cardinality(matches) = res.matches_inserted
                    ELSE results = {} /\ matches = {}

C1_Step ==
    \A r \in Requests :
        ResultsOf(check_result, r) # {}
            => /\ ResultsOf(check_result', r) = ResultsOf(check_result, r)
               /\ MatchesOf(check_match', r) = MatchesOf(check_match, r)

\* C1: in the committed tables a check has either its check_result row and
\* every check_match row collected for it, or no check_result row and no
\* check_match row, at every moment and on every path of the handler; once
\* committed, the rows of a check do not change
C1_Atomic == [](C1_State) /\ [][C1_Step]_vars

\* C1 witness: a check has ended with its result and several matches committed
C1_Witness ==
    /\ pc = "done"
    /\ res.status = 201
    /\ res.matches_inserted >= 2
    /\ Cardinality(MatchesOf(check_match, reqNo)) >= 2

Terminal(status) == status \in {"done", "failed"}

StatusOrder ==
    {<<"queued", "processing">>, <<"processing", "done">>,
     <<"processing", "failed">>}

RowsWellFormed(tbl) ==
    \A x \in tbl :
        /\ x.status \in {"queued", "processing", "done", "failed"}
        /\ (x.finished_at # "NULL") <=> Terminal(x.status)

\* the rows of `before` that are still there in `after` moved along StatusOrder
RowsStep(before, after) ==
    \A x \in before : \A y \in after :
        x.id_check = y.id_check
            => /\ x.status # y.status => <<x.status, y.status>> \in StatusOrder
               /\ Terminal(x.status) => y = x

\* C2: a check_request row changes status only along queued -> processing ->
\* (done | failed), a row that is done or failed never changes again (a
\* committed one is never removed), and finished_at is set exactly in the rows
\* that are done or failed; in the transaction and in the committed table
C2_StatusOrder ==
    /\ [](RowsWellFormed(check_request) /\ RowsWellFormed(conn.check_request))
    /\ [][/\ RowsStep(check_request, check_request')
          /\ RowsStep(conn.check_request, conn'.check_request)
          /\ RowsStep(conn.check_request, check_request')
          /\ check_request \subseteq check_request']_vars

\* C2 witness: a later request marks its row done while the row of an earlier
\* request is committed in a terminal status
C2_Witness ==
    /\ pc = "commit"
    /\ \E x \in conn.check_request : x.id_check = reqNo /\ x.status = "done"
    /\ \E y \in check_request : y.id_check < reqNo /\ Terminal(y.status)

\* the request got as far as reading the document text, with no rejected statement
ReadDocument ==
    /\ pc = "done"
    /\ created
    /\ ~threw

\* C3: whenever the normalized text of the checked document is shorter than k,
\* the request ends with the check_request row failed, the EmptyOrTooShort
\* error and no check_result row
C3_TooShortFails ==
    (ReadDocument /\ Len(normalize(DocText)) < params.k)
        => /\ \E x \in check_request : x.id_check = reqNo /\ x.status = "failed"
           /\ res.kind = "EmptyOrTooShort"
           /\ ResultsOf(check_result, reqNo) = {}

CorpusText(id) == readTextSafe(CorpusFiles[id])

\* the result row of the running request, in the transaction or committed
ResultRows == ResultsOf(conn.check_result, reqNo) \cup ResultsOf(check_result, reqNo)

\* the fingerprint similarities of the document with the kept candidates
CandidateSims(cands, k, w) ==
    {fingerprintSimilarity(FingerprintMemo[DocText, k, w],
                           FingerprintMemo[CorpusText(cands[i].id_corpus), k, w]) :
        i \in 1..Len(cands)}

\* p is the integer nearest to 10000 * sim, halves rounded up
IsRounded(p, sim) ==
    /\ 2 * p * sim.den <= 2 * 10000 * sim.num + sim.den
    /\ 2 * p * sim.den > 2 * 10000 * sim.num - sim.den

StripPunctuation(s) == SelectSeq(s, LAMBDA c : ~IsPunct(c))
DiffersOnlyInCaseAndPunctuation(x, y) ==
    toLowerCase(StripPunctuation(x)) = toLowerCase(StripPunctuation(y))

\* the active corpus entries with a readable text
ReadableCorpus == {c \in corpus_active : CorpusFiles[c].readable}

CandidateIds(cands) == {cands[i].id_corpus : i \in 1..Len(cands)}

InsertedRows(r) ==
    LET ms == MatchesOf(check_match, r) \cup MatchesOf(conn.check_match, r)
    IN [i \in 1..Cardinality(ms) |->
           (CHOOSE m \in ms : m.id_match = <<r, i>>).row]

AscendingDocStart(rows) ==
    \A i, j \in 1..Len(rows) :
        i < j => rows[i].doc_span_start <= rows[j].doc_span_start

\* the rows of one candidate are in strictly ascending doc_span_start, and the
\* rows of different candidates follow the order of the candidates
GroupedAscending(rows, cands) ==
    \A i, j \in 1..Len(rows) :
        i < j
            => IF rows[i].source_id = rows[j].source_id
               THEN rows[i].doc_span_start < rows[j].doc_span_start
               ELSE \E a, b \in 1..Len(cands) :
                       /\ a < b
                       /\ cands[a].id_corpus = rows[i].source_id
                       /\ cands[b].id_corpus = rows[j].source_id

\* C9 as claimed: the match spans of one check, in the order they are
\* collected and inserted over all candidates, are in ascending doc_span_start
C9_AscendingDocStart ==
    /\ AscendingDocStart(matchesToInsert)
    /\ \A r \in Requests : AscendingDocStart(InsertedRows(r))

\* C9 amended: the match spans of one check are grouped by candidate, the
\* groups in the order of the kept candidates, and within one candidate they
\* are in strictly ascending doc_span_start
C9_Amended ==
    /\ pc \in {"insertResult", "insertMatch", "updateDone", "commit",
                "auditCompleted"}
          => GroupedAscending(matchesToInsert, candidates)
    /\ \A x \in ResultRows :
          GroupedAscending(InsertedRows(reqNo), x.summary.candidates)
    /\ \A r \in Requests : \A x \in ResultsOf(check_result, r) :
          GroupedAscending(InsertedRows(r), x.summary.candidates)

\* C9 witness: a committed check whose rows come from two candidates, the
\* first of them with two spans
C9_Witness ==
    /\ pc = "done"
    /\ res.status = 201
    /\ LET rows == InsertedRows(reqNo)
       IN /\ Len(rows) >= 3
          /\ rows[1].source_id = rows[2].source_id
          /\ rows[1].doc_span_start < rows[2].doc_span_start
          /\ rows[3].source_id # rows[1].source_id

DescendingApprox(cands) ==
    \A i, j \in 1..Len(cands) :
        i < j => RatioLeq(cands[j].approx, cands[i].approx)

SameApprox(x, y) == RatioLeq(x.approx, y.approx) /\ RatioLeq(y.approx, x.approx)

TiesAscendingId(cands) ==
    \A i, j \in 1..Len(cands) :
        (i < j /\ SameApprox(cands[i], cands[j]))
            => cands[i].id_corpus < cands[j].id_corpus

TiesDescendingId(cands) ==
    \A i, j \in 1..Len(cands) :
        (i < j /\ SameApprox(cands[i], cands[j]))
            => cands[i].id_corpus > cands[j].id_corpus

\* the candidate lists of the model: the kept candidates of the running
\* request and summary_json.candidates of every result row
CandidateLists ==
    {candidates} \cup {x.summary.candidates : x \in check_result \cup conn.check_result}

\* C10 as claimed: the kept candidates (and summary_json.candidates) are in
\* descending approx, candidates of equal approx in ascending corpus id
C10_TiesAscending ==
    \A cands \in CandidateLists :
        DescendingApprox(cands) /\ TiesAscendingId(cands)

\* C10 amended: the kept candidates (and summary_json.candidates) are in
\* descending approx, candidates of equal approx in descending corpus id
C10_TiesDescending ==
    \A cands \in CandidateLists :
        DescendingApprox(cands) /\ TiesDescendingId(cands)

\* C10 witness: a committed summary with a candidate of larger approx before
\* two candidates of equal approx
C10_Witness ==
    /\ pc = "done"
    /\ res.status = 201
    /\ \E x \in ResultsOf(check_result, reqNo) :
          LET cands == x.summary.candidates
          IN /\ Len(cands) >= 3
             /\ \E i \in 2..(Len(cands) - 1) :
                   /\ RatioLess(cands[i].approx, cands[1].approx)
                   /\ SameApprox(cands[i], cands[i + 1])
                   /\ cands[i].id_corpus > cands[i + 1].id_corpus

(***************************************************************************)
(* Properties of buildMatchSpans                                           *)
(***************************************************************************)
InUnitInterval(x) == x.den > 0 /\ 0 <= x.num /\ x.num <= x.den

\* the part of C8 about the document side and the score: every span of
\* buildMatchSpans has doc_span_start < doc_span_end and a score in [0, 1]
DocSpansWellFormed ==
    fn.op = "buildMatchSpans"
        => \A i \in 1..Len(fn.out) :
              /\ fn.out[i].doc_span_start < fn.out[i].doc_span_end
              /\ InUnitInterval(fn.out[i].match_score)

\* C8: every span returned by buildMatchSpans(fpA, fpB, k), for fingerprints
\* produced by winnow and k >= 1, has doc_span_start < doc_span_end,
\* src_span_start < src_span_end and 0 <= match_score <= 1
C8_SpansWellFormed ==
    fn.op = "buildMatchSpans"
        => \A i \in 1..Len(fn.out) :
              /\ fn.out[i].doc_span_start < fn.out[i].doc_span_end
              /\ fn.out[i].src_span_start < fn.out[i].src_span_end
              /\ InUnitInterval(fn.out[i].match_score)

(***************************************************************************)
(* Properties of the candidate selection                                   *)
(***************************************************************************)
\* scoredCandidates of the running request, before the sort and the slice
ScoredCandidates ==
    LET sigDoc == SignatureMemo[DocText, params.k]
    IN scanCorpus(corpusRowsOf(corpus_active), 1, sigDoc,
                  SeqToSet(lshBuckets(sigDoc, Bands)), params.k)

\* the request has selected its candidates and holds them in `candidates`
HasCandidates ==
    pc \in {"insertResult", "insertMatch", "updateDone", "commit",
            "auditCompleted"}

\* no scored candidate that was dropped has a larger approx than a kept one
HighestApprox(kept, scored) ==
    \A i \in 1..Len(scored) :
        scored[i].id_corpus \notin CandidateIds(kept)
            => \A j \in 1..Len(kept) : RatioLeq(scored[i].approx, kept[j].approx)

\* C11: for every max_candidates of the request body (absent, positive, zero
\* or negative) the candidates carried into the Winnowing verification are at
\* most min(maxCandidates, 50) (none when that is not positive) and are the
\* scored candidates of highest approx
C11_AtMostMaxCandidates ==
    HasCandidates
        => /\ Len(candidates) <= Max2(0, maxCandidatesOf(body))
           /\ CandidateIds(candidates) \subseteq CandidateIds(ScoredCandidates)
           /\ HighestApprox(candidates, ScoredCandidates)

(***************************************************************************)
(* Properties of unreadable corpus texts                                   *)
(***************************************************************************)
UnreadableCorpus == {c \in corpus_active : ~CorpusFiles[c].readable}

\* the corpus ids named by the check_match rows of check r
MatchSources(r) ==
    {m.row.source_id :
        m \in MatchesOf(check_match, r) \cup MatchesOf(conn.check_match, r)}

\* the statements of the request were all accepted and the document was not
\* too short
RanToTheEnd ==
    /\ pc = "done"
    /\ created
    /\ ~threw
    /\ res.kind # "EmptyOrTooShort"

\* C12: a corpus entry whose text file is unreadable is skipped without
\* aborting the check: the entry is never among the candidates or the match
\* sources, the candidates are those of the readable entries alone, and a
\* check whose statements are all accepted ends 201 with its row done and a
\* check_result row
C12_UnreadableSkipped ==
    /\ \A cands \in CandidateLists :
          CandidateIds(cands) \cap (DOMAIN CorpusFiles \ {c \in DOMAIN CorpusFiles :
                                        CorpusFiles[c].readable}) = {}
    /\ \A r \in Requests :
          \A c \in MatchSources(r) : CorpusFiles[c].readable
    /\ HasCandidates
          => candidates = selectCandidates(DocText, corpusRowsOf(ReadableCorpus),
                                           params.k, maxCandidatesOf(body))
    /\ (RanToTheEnd /\ UnreadableCorpus # {})
          => /\ res.status = 201
             /\ \E x \in check_request : x.id_check = reqNo /\ x.status = "done"
             /\ ResultsOf(check_result, reqNo) # {}

\* C12 witness: a check over a corpus with an unreadable entry has ended done
\* with matches from a readable entry
C12_Witness ==
    /\ RanToTheEnd
    /\ UnreadableCorpus # {}
    /\ res.status = 201
    /\ res.matches_inserted >= 1
    /\ MatchSources(reqNo) # {}
    /\ \E x \in check_request : x.id_check = reqNo /\ x.status = "done"

\* the corpus ids that the warnings of a summary name; the summary of lines
\* 199-203 has the keys params, candidates and best_similarity only
SummaryWarnings(summary) ==
    IF "warnings" \in DOMAIN summary THEN summary.warnings ELSE {}

\* C13: whenever a corpus text file is unreadable during a check, the summary
\* persisted for that check holds a warning for the skipped corpus entry
C13_SummaryWarning ==
    \A x \in ResultsOf(check_result, reqNo) :
        \A c \in UnreadableCorpus : c \in SummaryWarnings(x.summary)

(***************************************************************************)
(* Properties of the check_match rows                                      *)
(***************************************************************************)
RatioEq(x, y) == x.num * y.den = y.num * x.den

\* min(1, (docEnd - docStart) / (|fpA| * k)) for the span of a row
SpanScoreOfRow(row, fpDoc, k) ==
    SpanScore([docStart |-> row.doc_span_start, docEnd |-> row.doc_span_end],
              IF Len(fpDoc) = 0 THEN 1 ELSE Len(fpDoc), k)

\* the fingerprint similarity of the document with the source of a row
SimOfRow(row, k, w) ==
    fingerprintSimilarity(FingerprintMemo[DocText, k, w],
                          FingerprintMemo[CorpusText(row.source_id), k, w])

\* the rows collected by the running request and the rows inserted for any
\* request, each with the params of its check
RowsWithParams ==
    {<<matchesToInsert[i], params>> : i \in 1..Len(matchesToInsert)}
        \cup UNION {{<<InsertedRows(x.check_id)[i], x.summary.params>> :
                        i \in 1..Len(InsertedRows(x.check_id))} :
                    x \in check_result \cup conn.check_result}

\* C14 as claimed: every check_match row of a check carries as match_score
\* the score of the span builder for its span,
\* min(1, (docEnd - docStart) / (|fpA| * k))
C14_SpanScorePersisted ==
    \A rp \in RowsWithParams :
        RatioEq(rp[1].match_score,
                SpanScoreOfRow(rp[1], FingerprintMemo[DocText, rp[2].k, rp[2].w],
                               rp[2].k))

\* C14 amended: every check_match row of a check carries as match_score the
\* fingerprint Jaccard similarity of the document with the candidate the span
\* comes from, which is at least the threshold and the same for all spans of
\* that candidate
C14_Amended ==
    \A rp \in RowsWithParams :
        /\ rp[1].match_score = SimOfRow(rp[1], rp[2].k, rp[2].w)
        /\ MeetsThreshold(rp[1].match_score, rp[2].thresholdPct)

\* C14 witness: a committed row whose match_score is the similarity 2/3 of
\* its candidate while the score of its span is smaller
C14_Witness ==
    /\ pc = "done"
    /\ res.status = 201
    /\ \E m \in MatchesOf(check_match, reqNo) :
          /\ m.row.match_score = Ratio(2, 3)
          /\ RatioLess(SpanScoreOfRow(m.row,
                           FingerprintMemo[DocText, params.k, params.w], params.k),
                       m.row.match_score)

(***************************************************************************)
(* Properties of the pure functions                                        *)
(***************************************************************************)
\* C15: for every text T and k >= 1, w >= 1, the positions of winnow(T, k, w)
\* do not decrease from one element to the next, and no two adjacent elements
\* have the same (hash, pos)
C15_WinnowOrdered ==
    fn.op = "winnow"
        => \A i \in 1..(Len(fn.out) - 1) :
              /\ fn.out[i].pos <= fn.out[i + 1].pos
              /\ fn.out[i] # fn.out[i + 1]

\* C15 witness: a text whose fingerprint has several elements although the
\* same k-gram is the minimum of two successive windows
C15_Witness ==
    /\ fn.op = "winnow"
    /\ fn.w >= 2
    /\ Len(fn.out) >= 2
    /\ Len(fn.out) < Len(makeKgrams(fn.text, fn.k)) - fn.w + 1

\* the normal form: lower case, no punctuation, no whitespace but single
\* blanks between word characters
IsNormalForm(t) ==
    /\ \A i \in 1..Len(t) : t[i] = " " \/ (IsWordChar(t[i]) /\ toLowerCaseChar(t[i]) = t[i])
    /\ Len(t) > 0 => (t[1] # " " /\ t[Len(t)] # " ")
    /\ \A i \in 1..(Len(t) - 1) : ~(t[i] = " " /\ t[i + 1] = " ")

\* C16: normalize is idempotent, normalize(normalize(x)) = normalize(x) for
\* every text x; its result is in normal form
C16_NormalizeIdempotent ==
    fn.op = "normalize"
        => /\ fn.again = fn.out
           /\ IsNormalForm(fn.out)

\* C16 witness: a text with an upper-case letter and a CRLF that normalize
\* changes into two words
C16_Witness ==
    /\ fn.op = "normalize"
    /\ fn.out = <<"b", " ", "a">>
    /\ fn.again = fn.out
    /\ \E i \in 1..(Len(fn.text) - 1) : fn.text[i] = "\r" /\ fn.text[i + 1] = "\n"
    /\ \E i \in 1..Len(fn.text) : fn.text[i] = "B"

\* C17: fingerprintSimilarity(A, B) is 0 when A or B is empty and otherwise
\* |HA \cap HB| / |HA \cup HB| over the sets of their hash values; it lies in
\* [0, 1] and is 1 when A and B are the same non-empty sequence
C17_Jaccard ==
    fn.op = "fingerprintSimilarity"
        => LET HA == HashSet(fn.fpA)
               HB == HashSet(fn.fpB)
           IN /\ InUnitInterval(fn.out)
              /\ (Len(fn.fpA) = 0 \/ Len(fn.fpB) = 0) => fn.out.num = 0
              /\ (Len(fn.fpA) > 0 /\ Len(fn.fpB) > 0)
                    => RatioEq(fn.out, Ratio(Cardinality(HA \cap HB),
                                             Cardinality(HA \cup HB)))
              /\ (fn.fpA = fn.fpB /\ Len(fn.fpA) > 0) => fn.out.num = fn.out.den

\* C17 witness: two different fingerprints with a common hash and a hash of
\* their own each, of similarity 1/3
C17_Witness ==
    /\ fn.op = "fingerprintSimilarity"
    /\ fn.fpA # fn.fpB
    /\ HashSet(fn.fpA) \ HashSet(fn.fpB) # {}
    /\ HashSet(fn.fpB) \ HashSet(fn.fpA) # {}
    /\ RatioEq(fn.out, Ratio(1, 3))

\* C18: minhashSignature(T, k, n) has exactly n entries for every text T and
\* every n >= 1; every entry is the sentinel PRIME when T has no k-gram, and
\* every entry is in [0, PRIME) when T has at least one k-gram
C18_SignatureShape ==
    fn.op = "minhashSignature"
        => /\ Len(fn.out) = fn.numPerm
           /\ Len(fn.grams) = 0 => \A i \in 1..Len(fn.out) : fn.out[i] = PRIME
           /\ Len(fn.grams) > 0
                 => \A i \in 1..Len(fn.out) : 0 <= fn.out[i] /\ fn.out[i] < PRIME

\* C18 witness: a signature of NumPerm entries, not all equal, of a text with
\* several k-grams
C18_Witness ==
    /\ fn.op = "minhashSignature"
    /\ fn.numPerm = NumPerm
    /\ Len(fn.out) = NumPerm
    /\ Len(fn.grams) >= 2
    /\ \E i, j \in 1..Len(fn.out) : fn.out[i] # fn.out[j]
    /\ \A i \in 1..Len(fn.out) : fn.out[i] < PRIME

(***************************************************************************)
(* Properties of the audit log                                             *)
(***************************************************************************)
\* the positions of the entries of one action for check r
AuditEntries(action, r) ==
    {i \in 1..Len(audit_log) :
        audit_log[i].action = action /\ audit_log[i].entity_id = r}

\* check r is committed: its row is done and it has a check_result row
CheckCommitted(r) ==
    /\ \E x \in check_request : x.id_check = r /\ x.status = "done"
    /\ ResultsOf(check_result, r) # {}

\* C19 as claimed: whenever a CHECK_COMPLETED entry is logged for a check, a
\* CREATE_CHECK_REQUEST entry for that check was logged before it, and the
\* transaction of the check has committed
C19_CreateBeforeCompleted ==
    \A r \in Requests :
        \A i \in AuditEntries("CHECK_COMPLETED", r) :
            /\ \E j \in AuditEntries("CREATE_CHECK_REQUEST", r) : j < i
            /\ CheckCommitted(r)

\* C19 amended: the audit entries of a check are at most one
\* CREATE_CHECK_REQUEST and at most one CHECK_COMPLETED; when both are there
\* CREATE_CHECK_REQUEST comes first; CHECK_COMPLETED is logged only after the
\* transaction of the check has committed
C19_Amended ==
    \A r \in Requests :
        /\ Cardinality(AuditEntries("CREATE_CHECK_REQUEST", r)) <= 1
        /\ Cardinality(AuditEntries("CHECK_COMPLETED", r)) <= 1
        /\ \A i \in AuditEntries("CHECK_COMPLETED", r) :
              /\ \A j \in AuditEntries("CREATE_CHECK_REQUEST", r) : j < i
              /\ CheckCommitted(r)

\* C19 witness: two checks have logged both entries, each in order
C19_Witness ==
    /\ Len(audit_log) = 4
    /\ \A r \in Requests :
          \E j \in AuditEntries("CREATE_CHECK_REQUEST", r) :
              \E i \in AuditEntries("CHECK_COMPLETED", r) : j < i

(***************************************************************************)
(* The admin routes that write algoritma_params and corpus_document while  *)
(* a check is running                                                      *)
(***************************************************************************)
MaxAdminOps == 2
ParamIdInputs == {1, 2, 9}
CorpusIdInputs == {1, 4, 9}

\* a field of a JSON body: <<>> when it is undefined, <<v>> when it is v
ParamsPostBodies ==
    [k : {MaxK}, w : {1, MaxW}, threshold : {100}]
ParamsPutBodies ==
    [k : {<<>>, <<MaxK>>}, w : {<<>>}, threshold : {<<>>},
     active_from : {<<>>, <<-1>>, <<1>>},
     active_to : {<<>>, << <<0>> >>, << <<1>> >>}]

NextParamsId == 1 + Cardinality(algoritma_params)

\* POST /api/admin/params: INSERT a row active from NOW() with active_to NULL
PostParams ==
    /\ adminOps < MaxAdminOps
    /\ adminOps' = adminOps + 1
    /\ \/ \E b \in ParamsPostBodies :
            /\ algoritma_params' = algoritma_params \cup
                  {[id_params |-> NextParamsId, k |-> b.k, w |-> b.w,
                    thresholdPct |-> b.threshold, active_from |-> 0,
                    active_to |-> <<>>]}
            /\ Audited("ADMIN_CREATE_PARAMS", "algoritma_params", NextParamsId)
       \/ UNCHANGED <<algoritma_params, audit_log>>
    /\ UNCHANGED <<corpus_active, fn, dbVars, conn, pc, reqNo, body, params,
                   localVars, threw, created, res, verifVars>>

\* UPDATE algoritma_params SET <the fields of the body> WHERE id_params = id
UpdatedParams(r, b) ==
    [r EXCEPT !.k = IF b.k = <<>> THEN @ ELSE b.k[1],
              !.w = IF b.w = <<>> THEN @ ELSE b.w[1],
              !.thresholdPct = IF b.threshold = <<>> THEN @ ELSE b.threshold[1],
              !.active_from = IF b.active_from = <<>> THEN @ ELSE b.active_from[1],
              !.active_to = IF b.active_to = <<>> THEN @ ELSE b.active_to[1]]

\* PUT /api/admin/params/:id: 404 without the row, 400 without a field
PutParams ==
    /\ adminOps < MaxAdminOps
    /\ adminOps' = adminOps + 1
    /\ \/ \E id \in ParamIdInputs, b \in ParamsPutBodies :
            /\ \E r \in algoritma_params : r.id_params = id
            /\ b # [k |-> <<>>, w |-> <<>>, threshold |-> <<>>,
                    active_from |-> <<>>, active_to |-> <<>>]
            /\ algoritma_params' =
                  {IF r.id_params = id THEN UpdatedParams(r, b) ELSE r :
                      r \in algoritma_params}
            /\ Audited("ADMIN_UPDATE_PARAMS", "algoritma_params", id)
       \/ UNCHANGED <<algoritma_params, audit_log>>
    /\ UNCHANGED <<corpus_active, fn, dbVars, conn, pc, reqNo, body, params,
                   localVars, threw, created, res, verifVars>>

\* PATCH /api/corpus/:id with is_active: 404 when no row is affected
PatchCorpus ==
    /\ adminOps < MaxAdminOps
    /\ adminOps' = adminOps + 1
    /\ \/ \E id \in CorpusIdInputs, is_active \in BOOLEAN :
            /\ id \in DOMAIN CorpusFiles
            /\ corpus_active' = IF is_active THEN corpus_active \cup {id}
                                ELSE corpus_active \ {id}
            /\ Audited("ADMIN_UPDATE_CORPUS", "corpus_document", id)
       \/ UNCHANGED <<corpus_active, audit_log>>
    /\ UNCHANGED <<algoritma_params, fn, dbVars, conn, pc, reqNo, body, params,
                   localVars, threw, created, res, verifVars>>

\* checks with the default max_candidates under one active params row
InitAdmin ==
    /\ Init
    /\ algoritma_params = {[id_params |-> 1, k |-> 1, w |-> 1,
                             thresholdPct |-> 50, active_from |-> 0,
                             active_to |-> <<>>]}
    /\ corpus_active = {1, 4}
    /\ body \in [doc_id : {1, 3, 9}, max_candidates : {<<>>}]

NextAdmin ==
    \/ Next
    \/ PostParams
    \/ PutParams
    \/ PatchCorpus

SpecAdmin == InitAdmin /\ [][NextAdmin]_vars

(***************************************************************************)
(* Parameters and corpus of a running check under concurrent admin writes  *)
(***************************************************************************)
\* the row getActiveParams() would return in the current state
ActiveParamsNow ==
    LET p == getActiveParams(algoritma_params, 0)
    IN IF p = <<>> THEN NoParams
       ELSE [id_params |-> p[1].id_params, k |-> p[1].k, w |-> p[1].w,
             thresholdPct |-> p[1].thresholdPct]

\* what lines 129-203 compute from the corpus rows of the current state
CandidatesNow ==
    selectCandidates(DocText, corpusRowsOf(corpus_active), params.k,
                     maxCandidatesOf(body))
MatchesNow ==
    verifyLoop(CandidatesNow, 1, FingerprintMemo[DocText, params.k, params.w],
               params.k, params.w, params.thresholdPct,
               [bestSim |-> ZeroSim, matchesToInsert |-> <<>>]).matchesToInsert

\* params is bound once, from the table as it is at that step
ParamsReadOnce ==
    params' # params =>
        \/ params' = NoParams
        \/ pc = "getParams" /\ params = NoParams /\ params' = ActiveParamsNow

\* candidates and matchesToInsert are bound once, from the corpus rows as they
\* are at that step and with the k, w and threshold of params
CorpusReadOnce ==
    (candidates' # candidates \/ matchesToInsert' # matchesToInsert) =>
        \/ candidates' = <<>> /\ matchesToInsert' = <<>>
        \/ /\ pc = "selectCorpus"
           /\ candidates = <<>> /\ matchesToInsert = <<>>
           /\ candidates' = CandidatesNow
           /\ matchesToInsert' = MatchesNow

\* the rows written for the current request carry the params that were read
RowsUseParamsRead ==
    /\ \A x \in RequestsOf(conn.check_request \cup check_request, reqNo) :
          x.params_id = params.id_params
    /\ \A x \in ResultsOf(conn.check_result \cup check_result, reqNo) :
          /\ x.summary.params = params
          /\ candidates # <<>> => x.summary.candidates = candidates
    /\ \A m \in MatchesOf(conn.check_match \cup check_match, reqNo) :
          matchesToInsert # <<>> => m.row \in SeqToSet(matchesToInsert)

\* C21: a check uses the k, w, threshold and params id it read once at its
\* start for every later step, and reads the active corpus rows once, while an
\* admin creates and updates algoritma_params rows and corpus rows
C21_ReadOnce ==
    /\ [][ParamsReadOnce /\ CorpusReadOnce]_vars
    /\ []RowsUseParamsRead

\* a check about to finish whose params and candidates are no longer those
\* the tables would give: an admin changed both after they were read
C21_Witness ==
    /\ pc = "updateDone"
    /\ ActiveParamsNow.k # params.k
    /\ ActiveParamsNow.id_params # params.id_params
    /\ candidates # CandidatesNow
    /\ Len(candidates) = 2
    /\ \E x \in ResultsOf(conn.check_result, reqNo) : x.summary.params = params
    /\ MatchesOf(conn.check_match, reqNo) # {}

(***************************************************************************)
(* The corpus scan                                                         *)
(***************************************************************************)
\* the bucket keys of a text under the k of the running check
BucketsOfText(text) == SeqToSet(lshBuckets(SignatureMemo[text, params.k], Bands))

SharesBucket(c) ==
    BucketsOfText(DocText) \cap BucketsOfText(CorpusText(c)) # {}

\* row c was pushed, with the estimate of the two signatures as its approx
PushedWithEstimate(c) ==
    \E i \in 1..Len(candidates) :
        /\ candidates[i].id_corpus = c
        /\ candidates[i].approx =
              estimateMinhashSim(SignatureMemo[DocText, params.k],
                                 SignatureMemo[CorpusText(c), params.k])

\* the scan is over and the slice of line 161 has dropped nothing
ScanKept ==
    /\ pc = "insertResult"
    /\ maxCandidatesOf(body) >= Cardinality(corpus_active)

\* C22: in the corpus scan an active corpus document with a readable text is
\* pushed as a candidate, with approx = estimateMinhashSim(sigDoc, sigC), if
\* and only if its LSH bucket keys intersect those of the checked document
C22_PushedIffSharesBucket ==
    ScanKept =>
        \A c \in corpus_active :
            CorpusFiles[c].readable => (PushedWithEstimate(c) <=> SharesBucket(c))

(***************************************************************************)
(* winnow against the procedure of the Winnower                            *)
(***************************************************************************)
\* H: the hashed k-grams of the normalized text, with their positions
HashedKgrams(text, k) ==
    LET t == normalize(text)
    IN [i \in 1..Max2(Len(t) - k + 1, 0) |->
           [h |-> hash64(SubSeq(t, i, i + k - 1)), pos |-> i - 1]]

\* the windows of W consecutive elements of H, by the index of their first
Windows(H, W) == 1..(Len(H) - W + 1)

\* the element of the window starting at i with the minimum hash, the leftmost
\* one when several have it
Picked(H, W, i) ==
    H[CHOOSE j \in i..(i + W - 1) :
          \A m \in i..(i + W - 1) :
              H[j].h < H[m].h \/ (H[j].h = H[m].h /\ j <= m)]

\* the picks of the windows i.. in order, one left out when it has the (hash,
\* pos) of the one before it
RECURSIVE KeptPicks(_, _, _)
KeptPicks(H, W, i) ==
    IF i \notin Windows(H, W) THEN <<>>
    ELSE LET p == Picked(H, W, i)
             rest == KeptPicks(H, W, i + 1)
         IN IF i > 1 /\ Picked(H, W, i - 1) = p THEN rest
            ELSE <<[hash |-> p.h, pos |-> p.pos]>> \o rest

ReferenceWinnow(text, k, w) ==
    LET H == HashedKgrams(text, k)
    IN IF Len(H) = 0 THEN <<>> ELSE KeptPicks(H, Max2(1, w), 1)

\* C23: winnow(T, k, w) is the sequence of the window minima (leftmost on
\* ties) of the windows i = 0..len(H)-W, W = max(1, w), without a pick that
\* repeats the (hash, pos) of the element appended last; it is empty when T
\* has no k-gram
C23_WinnowIsReference ==
    fn.op = "winnow" => fn.out = ReferenceWinnow(fn.text, fn.k, fn.w)

\* a call with a window of two equal hashes, where the leftmost one is taken,
\* and with a pick that is left out as a repetition
C23_Witness ==
    /\ fn.op = "winnow"
    /\ LET H == HashedKgrams(fn.text, fn.k)
           W == Max2(1, fn.w)
       IN /\ W = 2
          /\ \E i \in Windows(H, W) :
                /\ H[i].h = H[i + 1].h
                /\ Picked(H, W, i) = H[i]
                /\ \E n \in 1..Len(fn.out) : fn.out[n].pos = H[i].pos
          /\ 0 < Len(fn.out)
          /\ Len(fn.out) < Cardinality(Windows(H, W))

(***************************************************************************)
(* The rows of one candidate in the verification loop                      *)
(***************************************************************************)
\* the spans behind the rows, in the order of the rows
SpansOfRows(rows) ==
    [i \in 1..Len(rows) |->
        [doc_span_start |-> rows[i].doc_span_start,
         doc_span_end |-> rows[i].doc_span_end,
         src_span_start |-> rows[i].src_span_start,
         src_span_end |-> rows[i].src_span_end]]

\* C24: a check collects check_match rows for a candidate only when the
\* fingerprint similarity of the candidate is at least the threshold, and then
\* the rows are the first 50 spans built for it, or all when there are fewer
C24_ThresholdAndCap ==
    fn.op = "collectRows" =>
        /\ Len(fn.out) > 0 => MeetsThreshold(fn.sim, fn.thresholdPct)
        /\ Len(fn.out) <= SpanCap
        /\ Len(fn.out) <= Len(fn.spans)
        /\ SpansOfRows(fn.out) = SpansOfRows(SubSeq(fn.spans, 1, Len(fn.out)))
        /\ MeetsThreshold(fn.sim, fn.thresholdPct) =>
              Len(fn.out) = Min2(Len(fn.spans), SpanCap)

\* a candidate at the threshold with more than 50 spans: 50 rows are collected
C24_Witness ==
    /\ fn.op = "collectRows"
    /\ MeetsThreshold(fn.sim, fn.thresholdPct)
    /\ Len(fn.spans) > SpanCap
    /\ Len(fn.out) = SpanCap

(***************************************************************************)
(* lshBuckets                                                              *)
(***************************************************************************)
\* rows per band
RowsPerBand(sig, bands) == Len(sig) \div bands

\* sig[b*r .. (b+1)*r), b counted from 0
BandSlice(sig, bands, b) ==
    [i \in 1..RowsPerBand(sig, bands) |-> sig[b * RowsPerBand(sig, bands) + i]]

\* two signatures of one length with the same entries below index bands*r
SameBands(g, h, bands) ==
    /\ Len(g) = Len(h)
    /\ \A i \in 1..(bands * RowsPerBand(g, bands)) : g[i] = h[i]

\* C25: lshBuckets(sig, bands) returns no key when r = floor(len(sig) / bands)
\* is not positive and otherwise `bands` keys, key b being given by b and the
\* slice sig[b*r .. (b+1)*r) alone; the entries at index bands*r and above
\* have no effect on the output
C25_BandsPartition ==
    fn.op = "lshBuckets" =>
        IF RowsPerBand(fn.sig, fn.bands) <= 0 THEN fn.out = <<>>
        ELSE /\ Len(fn.out) = fn.bands
             /\ \A n \in 1..fn.bands :
                   fn.out[n] = <<n - 1, BandSlice(fn.sig, fn.bands, n - 1)>>
             /\ \A h \in Signatures :
                   SameBands(fn.sig, h, fn.bands) =>
                       lshBuckets(h, fn.bands) = fn.out

\* a call whose signature length is not a multiple of the band count
C25_Witness ==
    /\ fn.op = "lshBuckets"
    /\ fn.bands = 2
    /\ Len(fn.sig) = 5
    /\ Len(fn.out) = 2
    /\ fn.sig[5] # fn.sig[4]
    /\ \E h \in Signatures :
          SameBands(fn.sig, h, fn.bands) /\ h # fn.sig

(***************************************************************************)
(* The active params row                                                   *)
(***************************************************************************)
\* the rows with active_from <= now < (active_to or +infinity), now being 0
CurrentlyActive ==
    {r \in algoritma_params :
        /\ r.active_from <= 0
        /\ (r.active_to # <<>> => 0 < r.active_to[1])}

\* no other currently active row was activated later, nor at the same time
\* with a higher id
MostRecentlyActivated(r) ==
    /\ r \in CurrentlyActive
    /\ \A q \in CurrentlyActive \ {r} :
          \/ q.active_from < r.active_from
          \/ (q.active_from = r.active_from /\ q.id_params < r.id_params)

\* the step that ends the await of getActiveParams()
ParamsStep ==
    (pc = "getParams" /\ pc' # "getParams") =>
        IF CurrentlyActive = {}
        THEN /\ pc' = "done"
             /\ params' = NoParams
             /\ res'.sent => res'.status = 400 /\ res'.kind = "NoActiveParams"
        ELSE /\ ~res'.sent
             /\ pc' = "getConnection" =>
                   \E r \in algoritma_params :
                       /\ MostRecentlyActivated(r)
                       /\ params' = [id_params |-> r.id_params, k |-> r.k,
                                     w |-> r.w, thresholdPct |-> r.thresholdPct]

\* a request answered with NoActiveParams has written no check_request row
NoRowWithoutParams ==
    res.kind = "NoActiveParams" =>
        /\ ~created
        /\ RequestsOf(check_request \cup conn.check_request, reqNo) = {}

\* C26: getActiveParams returns, among the rows with active_from <= now and
\* active_to null or later than now, the one with the latest active_from, the
\* highest id among equals; with no such row POST /api/checks answers
\* NoActiveParams and creates no check_request row
C26_ActiveParams == [][ParamsStep]_vars /\ []NoRowWithoutParams

\* a second request answered NoActiveParams, the only params row being set to
\* start in the future after the first check was done with it
C26_Witness ==
    /\ reqNo = 2
    /\ pc = "done"
    /\ res.kind = "NoActiveParams"
    /\ \E r \in algoritma_params : r.active_from > 0
    /\ CurrentlyActive = {}
    /\ \E x \in check_request : x.id_check = 1 /\ x.status = "done"
    /\ RequestsOf(check_request, 2) = {}

(***************************************************************************)
(* POST /api/verification/:resultId                                        *)
(***************************************************************************)
\* the dosen table: user_id -> id_dosen; user 12 has no dosen profile
Dosen == (10 :> 7) @@ (11 :> 8)
VerifierUsers == {10, 11, 12}
VResultIdInputs == {0, 1, 2}
StatusInputs == {"", " Wajar ", "perlu revisi", "PLAGIARISME", "x"}
NoteTextInputs == {<<>>, <<"t">>}

\* getDosenIdByUserId: rows?.[0]?.id_dosen ?? null, 0 standing for null
getDosenIdByUserId(userId) ==
    IF userId \in DOMAIN Dosen THEN Dosen[userId] ELSE 0

\* String(s).trim().toLowerCase() on the inputs of the model
TrimLower(s) ==
    CASE s = " Wajar " -> "wajar"
      [] s = "PLAGIARISME" -> "plagiarisme"
      [] OTHER -> s

\* normalizeStatus: "" standing for null
normalizeStatus(s) ==
    IF s = "" THEN ""
    ELSE LET v == TrimLower(s)
         IN CASE v = "wajar" -> "wajar"
              [] v = "perlu_revisi" \/ v = "perlu revisi" -> "perlu_revisi"
              [] v = "plagiarisme" -> "plagiarisme"
              [] OTHER -> ""

\* req.body?.note_text !== undefined ? String(req.body.note_text) : ""
noteTextOf(t) == IF t = <<>> THEN "" ELSE t[1]

\* the UNIQUE key on verification_note.result_id: an INSERT of a second row
\* for a result is rejected
ViolatesUniqueResultId(rows, row) ==
    \E x \in rows : x.result_id = row.result_id

NotesOf(r) == {n \in verification_note : n.result_id = r}

\* a check of document 1 against an empty corpus has run to its end
AfterOneCheck ==
    /\ algoritma_params = {[id_params |-> 1, k |-> 1, w |-> 1,
                             thresholdPct |-> 50, active_from |-> 0,
                             active_to |-> <<>>]}
    /\ corpus_active = {}
    /\ check_request = {[id_check |-> 1, doc_id |-> 1, params_id |-> 1,
                         status |-> "done", finished_at |-> "NOW"]}
    /\ check_result =
          {[id_result |-> 1, check_id |-> 1, similarity |-> 0,
            summary |-> [params |-> [id_params |-> 1, k |-> 1, w |-> 1,
                                     thresholdPct |-> 50],
                         candidates |-> <<>>, best_similarity |-> ZeroSim]]}
    /\ check_match = {}
    /\ audit_log = <<[action |-> "CREATE_CHECK_REQUEST",
                      entity |-> "check_request", entity_id |-> 1],
                     [action |-> "CHECK_COMPLETED",
                      entity |-> "check_result", entity_id |-> 1]>>
    /\ conn = [NoConn EXCEPT !.check_request = check_request,
                             !.check_result = check_result,
                             !.acquires = 1, !.commits = 1, !.releases = 1]
    /\ pc = "done"
    /\ reqNo = 1
    /\ body = [doc_id |-> 1, max_candidates |-> <<>>]
    /\ params = [id_params |-> 1, k |-> 1, w |-> 1, thresholdPct |-> 50]
    /\ NoLocals
    /\ threw = FALSE
    /\ created = TRUE
    /\ res = [Response(201, "Created") EXCEPT !.similarity = 0]
    /\ adminOps = 0
    /\ fn = NoCall

\* what a call of the verification route leaves alone besides audit_log
checkVars == <<algoritma_params, corpus_active, adminOps, fn, dbVars, conn,
               pc, reqNo, body, params, localVars, threw, created, res>>

Ended(c, code) == [vcall EXCEPT ![c].pc = "done", ![c].code = code]

\* lines 55-69: the request arrives; resultId and status are validated
VStart(c) ==
    /\ vcall[c].pc = "idle"
    /\ \E r \in VResultIdInputs, u \in VerifierUsers, s \in StatusInputs,
          t \in NoteTextInputs :
          LET call == [IdleCall EXCEPT !.resultId = r, !.user = u,
                                       !.status = normalizeStatus(s),
                                       !.note_text = noteTextOf(t)]
          IN vcall' = [vcall EXCEPT ![c] =
                 IF r <= 0 \/ call.status = ""
                 THEN [call EXCEPT !.pc = "done", !.code = 400]
                 ELSE [call EXCEPT !.pc = "getDosen"]]
    /\ UNCHANGED <<checkVars, audit_log, verification_note>>

\* lines 71-73: await getDosenIdByUserId
VGetDosen(c) ==
    /\ vcall[c].pc = "getDosen"
    /\ LET dosenId == getDosenIdByUserId(vcall[c].user)
       IN vcall' = IF dosenId = 0 THEN Ended(c, 403)
                   ELSE [vcall EXCEPT ![c].pc = "selectResult",
                                      ![c].dosenId = dosenId]
    /\ UNCHANGED <<checkVars, audit_log, verification_note>>

\* lines 75-80: SELECT ... FROM check_result WHERE id_result = ?
VSelectResult(c) ==
    /\ vcall[c].pc = "selectResult"
    /\ vcall' = IF \E x \in check_result : x.id_result = vcall[c].resultId
                THEN [vcall EXCEPT ![c].pc = "selectNote"]
                ELSE Ended(c, 404)
    /\ UNCHANGED <<checkVars, audit_log, verification_note>>

\* lines 83-89: SELECT id_note FROM verification_note WHERE result_id = ? LIMIT 1
VSelectNote(c) ==
    /\ vcall[c].pc = "selectNote"
    /\ \/ /\ NotesOf(vcall[c].resultId) = {}
          /\ vcall' = [vcall EXCEPT ![c].pc = "insert", ![c].existing = <<>>]
       \/ \E n \in NotesOf(vcall[c].resultId) :
             vcall' = [vcall EXCEPT ![c].pc = "update",
                                    ![c].existing = <<n.id_note>>,
                                    ![c].noteId = n.id_note]
    /\ UNCHANGED <<checkVars, audit_log, verification_note>>

\* lines 90-95: UPDATE verification_note SET ... WHERE result_id = ?
VUpdate(c) ==
    /\ vcall[c].pc = "update"
    /\ verification_note' =
          {IF n.result_id = vcall[c].resultId
           THEN [n EXCEPT !.verifier_id = vcall[c].dosenId,
                          !.status = vcall[c].status,
                          !.note_text = vcall[c].note_text]
           ELSE n : n \in verification_note}
    /\ vcall' = [vcall EXCEPT ![c].pc = "audit"]
    /\ UNCHANGED <<checkVars, audit_log>>

\* lines 105-109: INSERT INTO verification_note; a duplicate result_id rejects
\* and the catch of lines 134-136 answers 500
VInsert(c) ==
    /\ vcall[c].pc = "insert"
    /\ LET row == [id_note |-> 1 + Cardinality(verification_note),
                   result_id |-> vcall[c].resultId,
                   verifier_id |-> vcall[c].dosenId,
                   status |-> vcall[c].status,
                   note_text |-> vcall[c].note_text]
       IN IF ViolatesUniqueResultId(verification_note, row)
          THEN /\ vcall' = Ended(c, 500)
               /\ UNCHANGED verification_note
          ELSE /\ verification_note' = verification_note \cup {row}
               /\ vcall' = [vcall EXCEPT ![c].pc = "audit",
                                         ![c].noteId = row.id_note]
    /\ UNCHANGED <<checkVars, audit_log>>

\* lines 97-103 and 111-117: audit the UPDATE or the INSERT
VAudit(c) ==
    /\ vcall[c].pc = "audit"
    /\ Audited(IF vcall[c].existing = <<>>
               THEN "DOSEN_CREATE_VERIFICATION_NOTE"
               ELSE "DOSEN_UPDATE_VERIFICATION_NOTE",
               "verification_note", vcall[c].noteId)
    /\ vcall' = [vcall EXCEPT ![c].pc = "selectOut"]
    /\ UNCHANGED <<checkVars, verification_note>>

\* lines 120-133: SELECT the note joined with its dosen and answer 201
VSelectOut(c) ==
    /\ vcall[c].pc = "selectOut"
    /\ vcall' = Ended(c, 201)
    /\ UNCHANGED <<checkVars, audit_log, verification_note>>

InitNotes ==
    /\ AfterOneCheck
    /\ verification_note = {}
    /\ vcall = NoCalls

NextNotes ==
    \E c \in Calls :
        \/ VStart(c)
        \/ VGetDosen(c)
        \/ VSelectResult(c)
        \/ VSelectNote(c)
        \/ VUpdate(c)
        \/ VInsert(c)
        \/ VAudit(c)
        \/ VSelectOut(c)

SpecNotes == InitNotes /\ [][NextNotes]_vars

\* a call that got past the checks of its input, its dosen and its result
PassedChecks(c) ==
    /\ vcall[c].pc = "done"
    /\ vcall[c].code \notin {400, 403, 404}

\* C27: after any calls of POST /api/verification/:resultId for a result, two
\* interleaving calls included, the result has at most one verification_note
\* row: the first call inserts the note and every later call updates that row
\* with its verifier, status and note text, so each such call ends with 201
C27_OneNoteUpserted ==
    /\ \A r \in VResultIdInputs : Cardinality(NotesOf(r)) <= 1
    /\ \A c \in Calls : PassedChecks(c) => vcall[c].code = 201

(***************************************************************************)
(* Requests and results once the requests have ended                       *)
(***************************************************************************)
NoRequestRunning == pc \in {"idle", "done"}

\* C28: once the requests have ended, a check_request row is done if and only
\* if exactly one check_result row references it, and a failed check_request
\* row has no check_result row
C28_DoneIffOneResult ==
    NoRequestRunning =>
        \A x \in check_request :
            /\ x.status = "done" <=>
                  Cardinality(ResultsOf(check_result, x.id_check)) = 1
            /\ x.status = "failed" => ResultsOf(check_result, x.id_check) = {}

\* two requests have ended done, each with its own check_result row
C28_Witness ==
    /\ pc = "done"
    /\ Cardinality(check_request) = 2
    /\ Cardinality(check_result) = 2
    /\ \A x \in check_request :
          /\ x.status = "done"
          /\ Cardinality(ResultsOf(check_result, x.id_check)) = 1

(***************************************************************************)
(* The audit entries of requests that were rolled back                     *)
(***************************************************************************)
\* C29: once the request has ended, every CREATE_CHECK_REQUEST entry of
\* audit_log refers to a persisted check_request row; no such entry is left
\* for a check whose transaction was rolled back
C29_AuditedRequestPersisted ==
    NoRequestRunning =>
        \A i \in 1..Len(audit_log) :
            audit_log[i].action = "CREATE_CHECK_REQUEST" =>
                RequestsOf(check_request, audit_log[i].entity_id) # {}

=============================================================================
